---- MODULE Spec2Model ----
(***************************************************************************)
(* Model of the in-memory vector database (stack-ai-vector-db).            *)
(*                                                                         *)
(* The Store (app/database) is a set of module-level functions guarded by  *)
(* three threading.Lock objects (non-reentrant).  Every Store function is  *)
(* modelled as a step operator over an explicit call stack; one step is    *)
(* one lock acquisition followed by the code that runs until the next      *)
(* acquisition, call or return.  A step whose lock is held (by any thread, *)
(* the caller included) is not enabled: the thread blocks.                 *)
(*                                                                         *)
(* Two specifications share the step operators:                            *)
(*   StoreSpec  worker threads calling the Store functions, interleaved    *)
(*              at lock granularity;                                       *)
(*   Spec       the service layer as the HTTP routes drive it: every route *)
(*              is an `async def` that calls the (synchronous) service on  *)
(*              the event loop, so a handler runs to completion, or blocks *)
(*              the loop forever, and index builds interleave with the     *)
(*              handlers only at their awaits.                             *)
(***************************************************************************)
EXTENDS Integers, Sequences, FiniteSets, TLC

\* ---------------------------------------------------------------- bounds
NumLibs == 2
NumDocs == 2
NumChunks == 2
NumThreads == 2
MaxStoreOps == 3
MaxOps == 5
MaxBuilds == 2
MaxSearches == 1

\* Python None for an id-valued field (chunk.document_id, a failed lookup)
NoId == 0

LibIds == 1..NumLibs
DocIds == 1..NumDocs
ChunkIds == 1..NumChunks
Threads == 1..NumThreads
\* process 0 is the asyncio event loop thread
Loop == 0
Procs == {Loop} \cup Threads

LockNames == {"library_lock", "document_lock", "chunk_lock"}

\* ------------------------------------------------------- dict primitives
EmptyMap == [x \in {} |-> x]
Put(m, k, v) == [x \in (DOMAIN m) \cup {k} |-> IF x = k THEN v ELSE m[x]]
Del(m, k) == [x \in (DOMAIN m) \ {k} |-> m[x]]
Get(m, k) == IF k \in DOMAIN m THEN m[k] ELSE NoId

\* ------------------------------------------------------------- entities
\* IndexStatus() defaults
IndexStatus == [indexed |-> FALSE, indexer_type |-> "none",
                last_indexed |-> "none", indexing_in_progress |-> FALSE]

IndexerTypes == {"BRUTE_FORCE", "BALL_TREE"}

\* a chunk's embedding is abstracted to its dimension: "none", the
\* dimension the embedder returns ("dimE"), or another one ("dimX")
Embeddings == {"none", "dimE", "dimX"}

\* ------------------------------------------------------------ call stack
Frame(fn, pc, lib, doc, chunk, arg) ==
    [fn |-> fn, pc |-> pc, lib |-> lib, doc |-> doc, chunk |-> chunk,
     arg |-> arg, loc |-> NoId, held |-> {}, rv |-> "none"]

NoEvent == [fn |-> "none", lib |-> NoId, doc |-> NoId, chunk |-> NoId,
            arg |-> "none", proc |-> Loop, val |-> "none"]

Depth(s, p) == Len(s.stack[p])
Top(s, p) == s.stack[p][Len(s.stack[p])]
SetTop(s, p, f) == [s EXCEPT !.stack[p][Len(s.stack[p])] = f]
Goto(s, p, pc) == SetTop(s, p, [Top(s, p) EXCEPT !.pc = pc])
SetLoc(s, p, v) == SetTop(s, p, [Top(s, p) EXCEPT !.loc = v])
Push(s, p, f) == [s EXCEPT !.stack[p] = Append(@, f)]

\* leaving a `with lock:` block
Rel(s, p, lk) ==
    LET s1 == [s EXCEPT ![lk] = {}]
    IN SetTop(s1, p, [Top(s1, p) EXCEPT !.held = @ \ {lk}])

ReleaseAll(s, locks) ==
    [s EXCEPT !.library_lock = IF "library_lock" \in locks THEN {} ELSE @,
              !.document_lock = IF "document_lock" \in locks THEN {} ELSE @,
              !.chunk_lock = IF "chunk_lock" \in locks THEN {} ELSE @]

Outcome(p, f, val) ==
    [fn |-> f.fn, lib |-> f.lib, doc |-> f.doc, chunk |-> f.chunk,
     arg |-> f.arg, proc |-> p, val |-> val]

\* `return val`: the with-blocks of the frame are left, the caller gets val
Return(s, p, val) ==
    LET f == Top(s, p)
        s1 == ReleaseAll(s, f.held)
        n == Len(s.stack[p])
        s2 == [s1 EXCEPT !.stack[p] = SubSeq(@, 1, n - 1)]
    IN IF n = 1
       THEN [s2 EXCEPT !.last = Outcome(p, f, val)]
       ELSE SetTop(s2, p, [Top(s2, p) EXCEPT !.rv = val])

\* `raise ValueError`: no frame of the Store or of the services handles it
\* (create_library and create_document re-raise), so every with-block on the
\* stack is left and the exception reaches the caller of the operation
HeldBy(s, p) == UNION {s.stack[p][i].held : i \in 1..Len(s.stack[p])}
Raise(s, p) ==
    LET s1 == ReleaseAll(s, HeldBy(s, p))
    IN [s1 EXCEPT !.stack[p] = <<>>,
                  !.last = Outcome(p, s.stack[p][1], "ValueError")]

\* ============================================================== Store
\* The lock a frame acquires at the start of its next step ("" for none).
\* Every entry is a `with db.<lock>:` line of the function named by f.fn.
Needs(s, f) ==
    CASE f.fn = "save_library" /\ f.pc = "library" ->
             IF s.dataDirOk THEN "library_lock" ELSE ""
      [] f.fn = "save_library" /\ f.pc = "documents" -> "document_lock"
      [] f.fn = "save_library" /\ f.pc = "chunks" -> "chunk_lock"
      [] f.fn = "create_chunk" /\ f.pc = "lookup" ->
             IF f.doc # NoId THEN "document_lock" ELSE ""
      [] f.fn = "create_chunk" /\ f.pc = "store" -> "chunk_lock"
      [] f.fn \in {"update_chunk", "delete_chunk"} /\ f.pc = "map" -> "chunk_lock"
      [] f.fn \in {"update_chunk", "delete_chunk"} /\ f.pc = "lookup" ->
             IF f.loc.document_id # NoId THEN "document_lock" ELSE ""
      [] f.fn \in {"update_chunk", "delete_chunk"} /\ f.pc = "apply" -> "chunk_lock"
      [] f.fn = "delete_chunks_by_document" /\ f.pc = "lookup" -> "document_lock"
      [] f.fn = "delete_chunks_by_document" /\ f.pc = "delete" -> "chunk_lock"
      [] f.fn = "create_document" /\ f.pc = "store" -> "document_lock"
      [] f.fn = "update_document" /\ f.pc = "apply" -> "document_lock"
      [] f.fn = "delete_document" /\ f.pc \in {"lookup", "delete"} -> "document_lock"
      [] f.fn = "delete_documents_by_library" /\ f.pc = "scan" -> "document_lock"
      [] f.fn \in {"create_library", "update_library", "delete_library"}
             /\ f.pc = "enter" -> "library_lock"
      [] OTHER -> ""

\* ------------------------------------------------------- persistence.py
\* the ids save_library collects
DocsOfLibrary(s, l) ==
    {d \in DOMAIN s.document_library_map :
        s.document_library_map[d] = l /\ d \in DOMAIN s.documents}
ChunksOfDocs_none(s, ds) == {}
ChunksOfDocs(s, ds) ==
    {c \in DOMAIN s.chunk_document_map :
        s.chunk_document_map[c] \in ds /\ c \in DOMAIN s.chunks}

\* chunk_copy without its "embedding" key
StripEmbedding(ch) == [document_id |-> ch.document_id, text |-> ch.text, id |-> ch.id]

\* the end of `with db.chunk_lock:`, the last block before the file is written
EndOfChunkBlock_inside(s, p) == s
EndOfChunkBlock(s, p) == Rel(s, p, "chunk_lock")

save_library(s, p) ==
    LET f == Top(s, p)
    IN CASE f.pc = "library" ->
              IF ~s.dataDirOk
              THEN \* ensure_data_directory() raises; except Exception: return False
                   Return(s, p, "False")
              ELSE IF f.lib \notin DOMAIN s.libraries
              THEN Return(s, p, "False")
              ELSE Goto(SetLoc(Rel(s, p, "library_lock"), p,
                               [library |-> s.libraries[f.lib]]), p, "documents")
         [] f.pc = "documents" ->
              LET ids == DocsOfLibrary(s, f.lib)
                  loc == [documents |-> [d \in ids |-> s.documents[d]],
                          library |-> f.loc.library]
              IN Goto(SetLoc(Rel(s, p, "document_lock"), p, loc), p, "chunks")
         [] f.pc = "chunks" ->
              LET cs == ChunksOfDocs(s, DOMAIN f.loc.documents)
                  loc == [documents |-> f.loc.documents,
                          chunks |-> [c \in cs |-> StripEmbedding(s.chunks[c])],
                          library |-> f.loc.library]
              IN Goto(SetLoc(EndOfChunkBlock(s, p), p, loc), p, "write")
         [] f.pc = "write" ->
              IF ~s.dataDirOk
              THEN Return(s, p, "False")
              ELSE Return([s EXCEPT !.disk = Put(@, f.lib, f.loc)], p, "True")

\* ------------------------------------------------------------ chunk_db.py
create_chunk(s, p) ==
    LET f == Top(s, p)
    IN CASE f.pc = "lookup" ->
              IF f.doc = NoId
              THEN Goto(SetLoc(s, p, NoId), p, "store")
              ELSE Goto(SetLoc(Rel(s, p, "document_lock"), p,
                               Get(s.document_library_map, f.doc)), p, "store")
         [] f.pc = "store" ->
              IF f.chunk \in DOMAIN s.chunks THEN Raise(s, p)
              ELSE IF f.doc # NoId /\ f.doc \notin DOMAIN s.documents THEN Raise(s, p)
              ELSE LET rec == [document_id |-> f.doc, text |-> f.arg.text,
                               id |-> f.chunk, embedding |-> f.arg.embedding]
                       s1 == [s EXCEPT !.chunks = Put(@, f.chunk, rec),
                                       !.chunk_document_map =
                                           IF f.doc # NoId THEN Put(@, f.chunk, f.doc) ELSE @]
                       s2 == Rel(s1, p, "chunk_lock")
                   IN IF f.loc # NoId
                      THEN Push(Goto(s2, p, "saved"), p,
                                Frame("save_library", "library", f.loc, NoId, NoId, "none"))
                      ELSE Return(s2, p, "chunk")
         [] f.pc = "saved" -> Return(s, p, "chunk")

\* the first two with-blocks of update_chunk and delete_chunk
chunk_parents(s, p) ==
    LET f == Top(s, p)
    IN CASE f.pc = "map" ->
              Goto(SetLoc(Rel(s, p, "chunk_lock"), p,
                          [document_id |-> Get(s.chunk_document_map, f.chunk),
                           library_id |-> NoId]), p, "lookup")
         [] f.pc = "lookup" ->
              IF f.loc.document_id = NoId
              THEN Goto(s, p, "apply")
              ELSE Goto(SetLoc(Rel(s, p, "document_lock"), p,
                               [document_id |-> f.loc.document_id,
                                library_id |-> Get(s.document_library_map,
                                                   f.loc.document_id)]), p, "apply")

\* `"<key>" in data and str(data["<key>"]) != str(current["<key>"])`
ParentChanged_allowed(current, payload, key) == FALSE
ParentChanged(current, payload, key) ==
    payload.field = key /\ payload.value # current[key]

\* A payload value of the wrong type for its field ({"text": null},
\* {"metadata": null}, {"name": null}): the model constructor raises
\* ValidationError, a ValueError.
NotAString == "null"

\* Chunk(**current_chunk)
ValidChunk(rec) == rec.text # NotAString

\* dict.update(payload) on a stored chunk
MergeChunk(rec, payload) ==
    CASE payload.field = "text" -> [rec EXCEPT !.text = payload.value]
      [] payload.field = "embedding" -> [rec EXCEPT !.embedding = payload.value]
      [] payload.field = "document_id" -> [rec EXCEPT !.document_id = payload.value]
      [] payload.field = "id" -> [rec EXCEPT !.id = payload.value]

update_chunk(s, p) ==
    LET f == Top(s, p)
    IN CASE f.pc \in {"map", "lookup"} -> chunk_parents(s, p)
         [] f.pc = "apply" ->
              IF f.chunk \notin DOMAIN s.chunks THEN Return(s, p, "None")
              ELSE IF ParentChanged(s.chunks[f.chunk], f.arg, "document_id")
              THEN Raise(s, p)
              ELSE LET s1 == [s EXCEPT !.chunks[f.chunk] = MergeChunk(@, f.arg)]
                       s2 == Rel(s1, p, "chunk_lock")
                   IN IF ~ValidChunk(s1.chunks[f.chunk]) THEN Raise(s1, p)
                      ELSE IF f.loc.library_id # NoId
                      THEN Push(Goto(s2, p, "saved"), p,
                                Frame("save_library", "library", f.loc.library_id,
                                      NoId, NoId, "none"))
                      ELSE Return(s2, p, "chunk")
         [] f.pc = "saved" -> Return(s, p, "chunk")

delete_chunk(s, p) ==
    LET f == Top(s, p)
    IN CASE f.pc \in {"map", "lookup"} -> chunk_parents(s, p)
         [] f.pc = "apply" ->
              IF f.chunk \notin DOMAIN s.chunks THEN Return(s, p, "False")
              ELSE LET s1 == [s EXCEPT !.chunks = Del(@, f.chunk),
                                       !.chunk_document_map = Del(@, f.chunk)]
                       s2 == Rel(s1, p, "chunk_lock")
                   IN IF f.loc.library_id # NoId
                      THEN Push(Goto(s2, p, "saved"), p,
                                Frame("save_library", "library", f.loc.library_id,
                                      NoId, NoId, "none"))
                      ELSE Return(s2, p, "True")
         [] f.pc = "saved" -> Return(s, p, "True")

delete_chunks_by_document(s, p) ==
    LET f == Top(s, p)
    IN CASE f.pc = "lookup" ->
              Goto(SetLoc(Rel(s, p, "document_lock"), p,
                          Get(s.document_library_map, f.doc)), p, "delete")
         [] f.pc = "delete" ->
              LET ids == {c \in DOMAIN s.chunk_document_map :
                              s.chunk_document_map[c] = f.doc}
                  s1 == [s EXCEPT
                           !.chunks = [c \in (DOMAIN @) \ ids |-> @[c]],
                           !.chunk_document_map = [c \in (DOMAIN @) \ ids |-> @[c]]]
              IN IF f.loc # NoId /\ ids # {}
                 THEN \* save_library is called inside `with db.chunk_lock:`
                      Push(Goto(s1, p, "saved"), p,
                           Frame("save_library", "library", f.loc, NoId, NoId, "none"))
                 ELSE Return(s1, p, "count")
         [] f.pc = "saved" -> Return(s, p, "count")

\* --------------------------------------------------------- document_db.py
create_document(s, p) ==
    LET f == Top(s, p)
    IN CASE f.pc = "store" ->
              IF f.doc \in DOMAIN s.documents THEN Raise(s, p)
              ELSE IF f.lib \notin DOMAIN s.libraries THEN Raise(s, p)
              ELSE LET rec == [id |-> f.doc, library_id |-> f.lib, meta |-> f.arg.meta]
                       s1 == [s EXCEPT !.documents = Put(@, f.doc, rec),
                                       !.document_library_map = Put(@, f.doc, f.lib)]
                   IN IF f.arg.chunks # <<>>
                      THEN \* create_chunk(chunk) inside `with db.document_lock:`;
                           \* chunk.document_id = document.id, so create_chunk asks
                           \* for document_lock again and never returns
                           LET ch == Head(f.arg.chunks)
                           IN Push(Goto(s1, p, "chunk_created"), p,
                                   Frame("create_chunk", "lookup", NoId, f.doc, ch.id,
                                         [text |-> ch.text, embedding |-> ch.embedding]))
                      ELSE Push(Goto(s1, p, "saved"), p,
                                Frame("save_library", "library", f.lib, NoId, NoId, "none"))
         [] f.pc = "saved" -> Return(s, p, "document")

\* `if "documents" in library_data: raise ValueError(...)` of update_library
\* and `if "chunks" in document_data: raise ValueError(...)` of update_document
RejectChildList_ignored(s, p) == Return(s, p, "None")
RejectChildList(s, p) == Raise(s, p)

\* Document(**current_document)
ValidDocument(rec) == rec.meta # NotAString

\* dict.update(payload) on a stored document
MergeDocument(rec, payload) ==
    CASE payload.field = "meta" -> [rec EXCEPT !.meta = payload.value]
      [] payload.field = "library_id" -> [rec EXCEPT !.library_id = payload.value]
      [] payload.field = "id" -> [rec EXCEPT !.id = payload.value]

update_document(s, p) ==
    LET f == Top(s, p)
    IN CASE f.pc = "apply" ->
              IF f.doc \notin DOMAIN s.documents THEN Return(s, p, "None")
              ELSE IF ParentChanged(s.documents[f.doc], f.arg, "library_id")
              THEN Raise(s, p)
              ELSE IF f.arg.field = "chunks" THEN RejectChildList(s, p)
              ELSE LET s1 == [s EXCEPT !.documents[f.doc] = MergeDocument(@, f.arg)]
                       l == Get(s.document_library_map, f.doc)
                   IN IF ~ValidDocument(s1.documents[f.doc]) THEN Raise(s1, p)
                      ELSE IF l # NoId
                      THEN Push(Goto(s1, p, "saved"), p,
                                Frame("save_library", "library", l, NoId, NoId, "none"))
                      ELSE Return(s1, p, "document")
         [] f.pc = "saved" -> Return(s, p, "document")

\* The code after delete_chunks_by_document(document_id) (the removal of the
\* document and of its map entry, and the save) is never reached: the call is
\* made inside `with db.document_lock:` and starts by taking document_lock.
delete_document(s, p) ==
    LET f == Top(s, p)
    IN CASE f.pc = "lookup" ->
              Goto(SetLoc(Rel(s, p, "document_lock"), p,
                          Get(s.document_library_map, f.doc)), p, "delete")
         [] f.pc = "delete" ->
              IF f.doc \notin DOMAIN s.documents THEN Return(s, p, "False")
              ELSE Push(Goto(s, p, "chunks_deleted"), p,
                        Frame("delete_chunks_by_document", "lookup", NoId, f.doc,
                              NoId, "none"))

\* With at least one document the loop calls delete_document, which takes
\* document_lock while this frame holds it: the count is returned only for 0.
delete_documents_by_library(s, p) ==
    LET f == Top(s, p)
        ids == {d \in DOMAIN s.document_library_map :
                    s.document_library_map[d] = f.lib}
    IN CASE f.pc = "scan" ->
              IF ids = {} THEN Return(s, p, "count")
              ELSE Push(Goto(s, p, "document_deleted"), p,
                        Frame("delete_document", "lookup", NoId,
                              CHOOSE d \in ids : \A e \in ids : d <= e, NoId, "none"))

\* ---------------------------------------------------------- library_db.py
\* the call create_library makes for the next nested document
NestedDocument(l, d) ==
    Frame("create_document", "store", l, d.id, NoId,
          [chunks |-> d.chunks, meta |-> d.meta])

create_library(s, p) ==
    LET f == Top(s, p)
    IN CASE f.pc = "enter" ->
              IF f.lib \in DOMAIN s.libraries THEN Raise(s, p)
              ELSE LET rec == [id |-> f.lib, name |-> f.arg.name,
                               index_status |-> f.arg.index_status]
                       s1 == [s EXCEPT !.libraries = Put(@, f.lib, rec)]
                   IN IF f.arg.documents = <<>>
                      THEN Return(s1, p, "library")
                      ELSE Push(Goto(SetLoc(s1, p, Tail(f.arg.documents)), p,
                                     "document_created"), p,
                                NestedDocument(f.lib, Head(f.arg.documents)))
         [] f.pc = "document_created" ->
              IF f.loc = <<>>
              THEN Return(s, p, "library")
              ELSE Push(SetLoc(s, p, Tail(f.loc)), p, NestedDocument(f.lib, Head(f.loc)))

\* Library(**current_library)
ValidLibrary(rec) == rec.name # NotAString

\* dict.update(payload) on a stored library
MergeLibrary_reset(rec, payload) ==
    CASE payload.field = "name" ->
             [rec EXCEPT !.name = payload.value, !.index_status = IndexStatus]
      [] payload.field = "index_status" -> [rec EXCEPT !.index_status = payload.value]
MergeLibrary(rec, payload) ==
    CASE payload.field = "name" -> [rec EXCEPT !.name = payload.value]
      [] payload.field = "index_status" -> [rec EXCEPT !.index_status = payload.value]
      [] payload.field = "id" -> [rec EXCEPT !.id = payload.value]

update_library(s, p) ==
    LET f == Top(s, p)
    IN IF f.lib \notin DOMAIN s.libraries THEN Return(s, p, "None")
       ELSE IF f.arg.field = "documents" THEN RejectChildList(s, p)
       ELSE LET s1 == [s EXCEPT !.libraries[f.lib] = MergeLibrary(@, f.arg)]
            IN IF ~ValidLibrary(s1.libraries[f.lib]) THEN Raise(s1, p)
               ELSE Return(s1, p, "library")

delete_library(s, p) ==
    LET f == Top(s, p)
    IN CASE f.pc = "enter" ->
              IF f.lib \notin DOMAIN s.libraries THEN Return(s, p, "False")
              ELSE Push(Goto(s, p, "documents_deleted"), p,
                        Frame("delete_documents_by_library", "scan", f.lib, NoId,
                              NoId, "none"))
         [] f.pc = "documents_deleted" ->
              Return([s EXCEPT !.libraries = Del(@, f.lib)], p, "True")

\* ------------------------------------------------------------- dispatch
StoreFns == {"save_library", "create_chunk", "update_chunk", "delete_chunk",
             "delete_chunks_by_document", "create_document", "update_document",
             "delete_document", "delete_documents_by_library", "create_library",
             "update_library", "delete_library"}

StoreBody(s, p) ==
    LET fn == Top(s, p).fn
    IN CASE fn = "save_library" -> save_library(s, p)
         [] fn = "create_chunk" -> create_chunk(s, p)
         [] fn = "update_chunk" -> update_chunk(s, p)
         [] fn = "delete_chunk" -> delete_chunk(s, p)
         [] fn = "delete_chunks_by_document" -> delete_chunks_by_document(s, p)
         [] fn = "create_document" -> create_document(s, p)
         [] fn = "update_document" -> update_document(s, p)
         [] fn = "delete_document" -> delete_document(s, p)
         [] fn = "delete_documents_by_library" -> delete_documents_by_library(s, p)
         [] fn = "create_library" -> create_library(s, p)
         [] fn = "update_library" -> update_library(s, p)
         [] fn = "delete_library" -> delete_library(s, p)

\* threading.Lock.acquire: possible only while nobody holds the lock
CanStep(s, p) ==
    /\ s.stack[p] # <<>>
    /\ LET lk == Needs(s, Top(s, p)) IN IF lk = "" THEN TRUE ELSE s[lk] = {}

Acquire(s, p) ==
    LET lk == Needs(s, Top(s, p))
    IN IF lk = "" THEN s
       ELSE SetTop([s EXCEPT ![lk] = {p}], p,
                   [Top(s, p) EXCEPT !.held = @ \cup {lk}])

\* ---------------------------------------------------------- load at startup
\* load_library_from_file on the snapshot of library l: the stored dicts are
\* installed as they are; a chunk never has an "embedding" key afterwards
LoadedChunk(rec) == [document_id |-> rec.document_id, text |-> rec.text,
                     id |-> rec.id, embedding |-> "none"]

load_library_from_file(s, l) ==
    LET file == s.disk[l]
        ds == DOMAIN file.documents
        cs == DOMAIN file.chunks
    IN [s EXCEPT
          !.libraries = Put(@, l, file.library),
          !.documents = [d \in (DOMAIN @) \cup ds |->
                            IF d \in ds THEN file.documents[d] ELSE @[d]],
          !.document_library_map = [d \in (DOMAIN @) \cup ds |->
                            IF d \in ds THEN file.documents[d].library_id ELSE @[d]],
          !.chunks = [c \in (DOMAIN @) \cup cs |->
                            IF c \in cs THEN LoadedChunk(file.chunks[c]) ELSE @[c]],
          !.chunk_document_map = [c \in (DOMAIN @) \cup cs |->
                            IF c \in cs THEN file.chunks[c].document_id ELSE @[c]]]

RECURSIVE LoadFiles(_, _)
LoadFiles(s, order) ==
    IF order = <<>> THEN s
    ELSE LoadFiles(load_library_from_file(s, Head(order)), Tail(order))

\* os.listdir gives the files in an arbitrary order
ListDirOrders(s) ==
    {o \in [1..Cardinality(DOMAIN s.disk) -> DOMAIN s.disk] :
        \A i, j \in DOMAIN o : i # j => o[i] # o[j]}

load_all_libraries(s, order) ==
    IF ~s.dataDirOk THEN s ELSE LoadFiles(s, order)

\* ============================================================ services
\* The services run on the event loop thread, outside every with-block, so
\* the locks of get_library, get_document and get_chunk are free when they
\* are called: the getters are the reads below.

\* the outcome of an operation that is not a frame of the call stack
Event(s, fn, l, arg, val) ==
    [s EXCEPT !.last = [fn |-> fn, lib |-> l, doc |-> NoId, chunk |-> NoId,
                        arg |-> arg, proc |-> Loop, val |-> val]]

\* update_library(library_id, {"index_status": st}) called by the service
SetIndexStatus(s, l, st) ==
    IF l \notin DOMAIN s.libraries THEN s
    ELSE [s EXCEPT !.libraries[l] =
              MergeLibrary(@, [field |-> "index_status", value |-> st])]

\* LibraryService.mark_library_unindexed
mark_library_unindexed(s, l) ==
    IF l \notin DOMAIN s.libraries THEN s
    ELSE LET st == s.libraries[l].index_status
         IN IF st.indexed
            THEN SetIndexStatus(s, l,
                     [indexed |-> FALSE, indexer_type |-> st.indexer_type,
                      last_indexed |-> st.last_indexed,
                      indexing_in_progress |-> FALSE])
            ELSE s

\* entering a Store function from a service method: the service frame keeps
\* the library it will invalidate and waits at pc
CallStore(s, p, pc, l, g) ==
    Push(SetTop(s, p, [Top(s, p) EXCEPT !.pc = pc, !.lib = l]), p, g)

\* --------------------------------------------------------- ChunkService
ChunkService_create_chunk(s, p) ==
    LET f == Top(s, p)
    IN CASE f.pc = "start" ->
              IF f.doc \notin DOMAIN s.documents THEN Raise(s, p)
              ELSE CallStore(s, p, "created", s.documents[f.doc].library_id,
                             Frame("create_chunk", "lookup", NoId, f.doc, f.chunk, f.arg))
         [] f.pc = "created" -> Return(mark_library_unindexed(s, f.lib), p, "chunk")

ChunkService_update_chunk(s, p) ==
    LET f == Top(s, p)
    IN CASE f.pc = "start" ->
              IF f.chunk \notin DOMAIN s.chunks THEN Return(s, p, "None")
              ELSE IF s.chunks[f.chunk].document_id \notin DOMAIN s.documents
              THEN Return(s, p, "None")
              ELSE CallStore(s, p, "updated",
                             s.documents[s.chunks[f.chunk].document_id].library_id,
                             Frame("update_chunk", "map", NoId, NoId, f.chunk, f.arg))
         [] f.pc = "updated" -> Return(mark_library_unindexed(s, f.lib), p, f.rv)

ChunkService_delete_chunk(s, p) ==
    LET f == Top(s, p)
    IN CASE f.pc = "start" ->
              IF f.chunk \notin DOMAIN s.chunks THEN Return(s, p, "False")
              ELSE IF s.chunks[f.chunk].document_id \notin DOMAIN s.documents
              THEN Return(s, p, "False")
              ELSE CallStore(s, p, "deleted",
                             s.documents[s.chunks[f.chunk].document_id].library_id,
                             Frame("delete_chunk", "map", NoId, NoId, f.chunk, "none"))
         [] f.pc = "deleted" ->
              IF f.rv = "True"
              THEN Return(mark_library_unindexed(s, f.lib), p, f.rv)
              ELSE Return(s, p, f.rv)

\* ------------------------------------------------------ DocumentService
DocumentService_create_document(s, p) ==
    LET f == Top(s, p)
    IN CASE f.pc = "start" ->
              CallStore(s, p, "created", f.lib,
                        Frame("create_document", "store", f.lib, f.doc, NoId, f.arg))
         [] f.pc = "created" -> Return(mark_library_unindexed(s, f.lib), p, "document")

DocumentService_update_document(s, p) ==
    LET f == Top(s, p)
    IN CASE f.pc = "start" ->
              IF f.arg.field = "chunks" THEN Raise(s, p)
              ELSE IF f.doc \notin DOMAIN s.documents THEN Return(s, p, "None")
              ELSE CallStore(s, p, "updated", s.documents[f.doc].library_id,
                             Frame("update_document", "apply", NoId, f.doc, NoId, f.arg))
         [] f.pc = "updated" ->
              IF f.arg.field = "library_id" /\ f.arg.value # f.lib
              THEN Return(mark_library_unindexed(mark_library_unindexed(s, f.lib),
                                                 f.arg.value), p, f.rv)
              ELSE Return(s, p, f.rv)

DocumentService_delete_document(s, p) ==
    LET f == Top(s, p)
    IN CASE f.pc = "start" ->
              CallStore(s, p, "deleted",
                        IF f.doc \in DOMAIN s.documents
                        THEN s.documents[f.doc].library_id ELSE NoId,
                        Frame("delete_document", "lookup", NoId, f.doc, NoId, "none"))
         [] f.pc = "deleted" ->
              IF f.rv = "True" /\ f.lib # NoId
              THEN Return(mark_library_unindexed(s, f.lib), p, f.rv)
              ELSE Return(s, p, f.rv)

\* ------------------------------------------------------- LibraryService
\* An indexer object and the task that fills it are one entry of builds, and
\* library_indexers and indexing_tasks refer to it by its position.
\*   pc       "pending" (created, not run yet), "embedding" (index_library
\*            awaits the embedder), "done"
\*   vectors  the vectors the indexer holds: chunk id and dimension
\*   tree     BallTreeIndexer.trees[library_id]: "unset", "None" or "built"
NewBuild(l, k) ==
    [pc |-> "pending", lib |-> l, kind |-> k, cancelled |-> FALSE,
     todo |-> <<>>, vectors |-> <<>>, tree |-> "unset", outcome |-> "none"]

\* the tasks of library l for which task.done() is false and cancel() was not called
LiveBuilds(s, l) ==
    {i \in DOMAIN s.builds :
        s.builds[i].lib = l /\ s.builds[i].pc # "done" /\ ~s.builds[i].cancelled}

\* `if library_id in library_indexers: del library_indexers[library_id]`
DropIndexer_kept(s, l) == s
DropIndexer(s, l) == [s EXCEPT !.library_indexers = Del(@, l)]

\* `if not task.done(): task.cancel()` and `del indexing_tasks[library_id]`
CancelTask(s, l) ==
    IF l \notin DOMAIN s.indexing_tasks THEN s
    ELSE LET i == s.indexing_tasks[l]
         IN [s EXCEPT !.builds[i].cancelled = (s.builds[i].pc # "done") \/ @,
                      !.indexing_tasks = Del(@, l)]

LibraryService_create_library(s, p) ==
    LET f == Top(s, p)
    IN CASE f.pc = "start" ->
              CallStore(s, p, "created", f.lib,
                        Frame("create_library", "enter", f.lib, NoId, NoId,
                              [f.arg EXCEPT !.index_status = IndexStatus]))
         [] f.pc = "created" -> Return(s, p, f.rv)

\* `if library and library.index_status.indexing_in_progress:`
UpdateBlocked_never(s, l) == FALSE
UpdateBlocked(s, l) ==
    l \in DOMAIN s.libraries /\ s.libraries[l].index_status.indexing_in_progress

LibraryService_update_library(s, p) ==
    LET f == Top(s, p)
    IN CASE f.pc = "start" ->
              IF f.arg.field = "documents" THEN Raise(s, p)
              ELSE IF UpdateBlocked(s, f.lib)
              THEN Raise(s, p)
              ELSE CallStore(s, p, "updated", f.lib,
                             Frame("update_library", "enter", f.lib, NoId, NoId, f.arg))
         [] f.pc = "updated" -> Return(s, p, f.rv)

LibraryService_delete_library(s, p) ==
    LET f == Top(s, p)
    IN CASE f.pc = "start" ->
              CallStore(CancelTask(DropIndexer(s, f.lib), f.lib), p, "deleted", f.lib,
                        Frame("delete_library", "enter", f.lib, NoId, NoId, "none"))
         [] f.pc = "deleted" -> Return(s, p, f.rv)

\* `if library.index_status.indexing_in_progress:` of start_indexing_library
AlreadyIndexing_never(library) == FALSE
AlreadyIndexing(library) == library.index_status.indexing_in_progress

start_indexing_library(s, l, k) ==
    IF l \notin DOMAIN s.libraries
    THEN Event(s, "start_indexing_library", l, k, "ValueError")
    ELSE IF AlreadyIndexing(s.libraries[l])
    THEN Event(s, "start_indexing_library", l, k, "indexing_in_progress")
    ELSE LET s1 == SetIndexStatus(s, l,
                       [indexed |-> FALSE, indexer_type |-> k,
                        last_indexed |-> "none", indexing_in_progress |-> TRUE])
             i == Len(s.builds) + 1
         IN Event([s1 EXCEPT !.builds = Append(@, NewBuild(l, k)),
                             !.library_indexers = Put(@, l, i),
                             !.indexing_tasks = Put(@, l, i)],
                  "start_indexing_library", l, k, "indexing_started")

\* ---------------------------------------------------------------- indexer
\* the ids of S in ascending order (the dicts of the Store are modelled
\* without their insertion order)
RECURSIVE Ascending(_)
Ascending(S) ==
    IF S = {} THEN <<>>
    ELSE LET m == CHOOSE x \in S : \A y \in S : x <= y
         IN <<m>> \o Ascending(S \ {m})

\* DocumentService.get_documents_by_library flattened to the chunks the
\* indexer loops over: Chunk objects built when index_library starts
LibraryChunks(s, l) ==
    LET ds == DocsOfLibrary(s, l)
        cs == Ascending(ChunksOfDocs(s, ds))
    IN [n \in 1..Len(cs) |->
           [doc |-> s.chunk_document_map[cs[n]], id |-> cs[n],
            embedding |-> s.chunks[cs[n]].embedding]]

\* `"document_name": document.name`: Document declares id, library_id, chunks
\* and metadata only, so the attribute access raises AttributeError
DocumentName(b) == [b EXCEPT !.pc = "raised"]

\* `vectors.append(embedding)` and the chunk_info entry of the first chunk
\* of todo; a missing embedding is the one the embedder returned
AddChunk(b) ==
    LET ch == Head(b.todo)
        v == [id |-> ch.id,
              dim |-> IF ch.embedding = "none" THEN "dimE" ELSE ch.embedding]
    IN DocumentName([b EXCEPT !.vectors = Append(@, v)])

\* np.array(vectors) of rows of the same length
SameDimension(b) ==
    \A i, j \in DOMAIN b.vectors : b.vectors[i].dim = b.vectors[j].dim

\* the end of index_library: BallTreeIndexer builds its tree inside a
\* try/except that logs the error and sets trees[library_id] = None
BuildStructure(b) ==
    IF b.kind = "BALL_TREE"
    THEN [b EXCEPT !.pc = "returned",
                   !.tree = IF b.vectors # <<>> /\ SameDimension(b)
                            THEN "built" ELSE "None"]
    ELSE [b EXCEPT !.pc = "returned"]

\* the loop of index_library over the chunks left in todo
IndexChunks(s, b) ==
    IF b.todo = <<>> THEN BuildStructure(b)
    ELSE IF Head(b.todo).embedding = "none" THEN [b EXCEPT !.pc = "embedding"]
    ELSE AddChunk(b)

\* index_library up to its first await
index_library(s, b) ==
    IF b.lib \notin DOMAIN s.libraries THEN [b EXCEPT !.pc = "raised"]
    ELSE IndexChunks(s, [b EXCEPT !.todo = LibraryChunks(s, b.lib)])

\* ------------------------------------------------- _index_library_task
\* the index_status written after `await indexer.index_library(...)`
BuildSucceededStatus_in_progress(k) ==
    [indexed |-> TRUE, indexer_type |-> k, last_indexed |-> "t",
     indexing_in_progress |-> TRUE]
BuildSucceededStatus(k) ==
    [indexed |-> TRUE, indexer_type |-> k, last_indexed |-> "t",
     indexing_in_progress |-> FALSE]

\* the index_status written by `except Exception`
BuildFailedStatus ==
    [indexed |-> FALSE, indexer_type |-> "none", last_indexed |-> "none",
     indexing_in_progress |-> FALSE]

\* `if library_id in library_indexers: del library_indexers[library_id]`
\* of the except branch
RemoveFailedIndexer_kept(s, l) == s
RemoveFailedIndexer(s, l) == [s EXCEPT !.library_indexers = Del(@, l)]

\* finally: `if library_id in indexing_tasks: del indexing_tasks[library_id]`
TaskCleanup(s, l) == [s EXCEPT !.indexing_tasks = Del(@, l)]

\* the task after index_library has gone as far as b: suspended at the
\* embedder, returned (the try body ends) or raised (except Exception)
TaskContinue(s, i, b) ==
    LET s1 == [s EXCEPT !.builds[i] = b]
    IN CASE b.pc = "embedding" -> s1
         [] b.pc = "returned" ->
              Event(TaskCleanup(
                        SetIndexStatus([s1 EXCEPT !.builds[i].pc = "done",
                                                  !.builds[i].outcome = "ok"],
                                       b.lib, BuildSucceededStatus(b.kind)), b.lib),
                    "_index_library_task", b.lib, i, "ok")
         [] b.pc = "raised" ->
              Event(TaskCleanup(
                        RemoveFailedIndexer(
                            SetIndexStatus([s1 EXCEPT !.builds[i].pc = "done",
                                                      !.builds[i].outcome = "failed"],
                                           b.lib, BuildFailedStatus), b.lib), b.lib),
                    "_index_library_task", b.lib, i, "failed")

\* the event loop runs a task for the first time; a task cancelled before
\* that never enters the coroutine
TaskFirstRun(s, i) ==
    LET b == s.builds[i]
    IN IF b.cancelled
       THEN Event([s EXCEPT !.builds[i].pc = "done", !.builds[i].outcome = "cancelled"],
                  "_index_library_task", b.lib, i, "cancelled")
       ELSE TaskContinue(s, i, index_library(s, b))

\* the embedder answers (r = "ok") or fails (r = "error"), or the task was
\* cancelled meanwhile: CancelledError is no Exception, only finally runs
TaskWakeUp(s, i, r) ==
    LET b == s.builds[i]
    IN IF b.cancelled
       THEN Event(TaskCleanup([s EXCEPT !.builds[i].pc = "done",
                                        !.builds[i].outcome = "cancelled"], b.lib),
                  "_index_library_task", b.lib, i, "cancelled")
       ELSE IF r = "error" THEN TaskContinue(s, i, [b EXCEPT !.pc = "raised"])
       ELSE TaskContinue(s, i, AddChunk(b))

\* ------------------------------------------------------- search_library
\* what holds when search_library is called (kept with the call, for the
\* properties that speak of "at the time of the call")
AtCall(s, l) ==
    [indexed |-> l \in DOMAIN s.libraries /\ s.libraries[l].index_status.indexed,
     exists |-> l \in DOMAIN s.libraries,
     building |-> LiveBuilds(s, l) # {},
     installed |-> l \in DOMAIN s.library_indexers]

\* the checks of search_library before `await indexer.search(...)`: the
\* error raised, "" when the search goes on
SearchRefusal_unchecked(s, l) ==
    IF l \notin DOMAIN s.libraries THEN "not found"
    ELSE IF l \notin DOMAIN s.library_indexers THEN "no indexer"
    ELSE ""
SearchRefusal_while_indexing(s, l) ==
    IF l \notin DOMAIN s.libraries THEN "not found"
    ELSE IF ~s.libraries[l].index_status.indexed
            /\ ~s.libraries[l].index_status.indexing_in_progress
    THEN "not indexed"
    ELSE IF l \notin DOMAIN s.library_indexers THEN "no indexer"
    ELSE ""
SearchRefusal(s, l) ==
    IF l \notin DOMAIN s.libraries THEN "not found"
    ELSE IF ~s.libraries[l].index_status.indexed
    THEN IF s.libraries[l].index_status.indexing_in_progress
         THEN "being indexed" ELSE "not indexed"
    ELSE IF l \notin DOMAIN s.library_indexers THEN "no indexer"
    ELSE ""

search_library(s, l) ==
    LET r == SearchRefusal(s, l)
    IN IF r # ""
       THEN Event(s, "search_library", l,
                  [at_call |-> AtCall(s, l), queried |-> FALSE], r)
       ELSE [s EXCEPT !.searches =
                Append(@, [lib |-> l, at_call |-> AtCall(s, l),
                           indexer |-> s.library_indexers[l]])]

\* indexer.search after the embedder answered, and the formatting loop of
\* search_library: BruteForceIndexer skips a library without vectors and
\* indexes chunk_info (shorter than vectors) otherwise; BallTreeIndexer
\* returns [] without a tree; a result whose document exists reads
\* document.name
Query(s, b) ==
    IF b.kind = "BRUTE_FORCE"
    THEN IF b.vectors = <<>> THEN "results" ELSE "Exception"
    ELSE IF b.tree # "built" THEN "results"
    ELSE IF \E n \in DOMAIN b.todo : b.todo[n].doc \in DOMAIN s.documents
    THEN "Exception" ELSE "results"

Without(q, j) == [n \in 1..(Len(q) - 1) |-> IF n < j THEN q[n] ELSE q[n + 1]]

\* the embedder answers the query of the j-th waiting search
SearchWakeUp(s, j, r) ==
    LET c == s.searches[j]
        s1 == [s EXCEPT !.searches = Without(@, j)]
    IN IF r = "error"
       THEN Event(s1, "search_library", c.lib,
                  [at_call |-> c.at_call, queried |-> FALSE], "embedder error")
       ELSE Event(s1, "search_library", c.lib,
                  [at_call |-> c.at_call, queried |-> TRUE],
                  Query(s, s.builds[c.indexer]))

\* ---------------------------------------------------- a request handler
ServiceFns == {"ChunkService.create_chunk", "ChunkService.update_chunk",
               "ChunkService.delete_chunk", "DocumentService.create_document",
               "DocumentService.update_document", "DocumentService.delete_document",
               "LibraryService.create_library", "LibraryService.update_library",
               "LibraryService.delete_library"}

ServiceBody(s, p) ==
    LET fn == Top(s, p).fn
    IN CASE fn = "ChunkService.create_chunk" -> ChunkService_create_chunk(s, p)
         [] fn = "ChunkService.update_chunk" -> ChunkService_update_chunk(s, p)
         [] fn = "ChunkService.delete_chunk" -> ChunkService_delete_chunk(s, p)
         [] fn = "DocumentService.create_document" -> DocumentService_create_document(s, p)
         [] fn = "DocumentService.update_document" -> DocumentService_update_document(s, p)
         [] fn = "DocumentService.delete_document" -> DocumentService_delete_document(s, p)
         [] fn = "LibraryService.create_library" -> LibraryService_create_library(s, p)
         [] fn = "LibraryService.update_library" -> LibraryService_update_library(s, p)
         [] fn = "LibraryService.delete_library" -> LibraryService_delete_library(s, p)

Body(s, p) ==
    IF Top(s, p).fn \in StoreFns THEN StoreBody(s, p) ELSE ServiceBody(s, p)

\* The routes are `async def` functions that call the services directly: a
\* handler runs on the event loop until it returns or raises, or until it
\* asks for a lock that is held, and then the loop never runs again.
RECURSIVE RunToCompletion(_, _)
RunToCompletion(s, p) ==
    IF s.stack[p] = <<>> THEN s
    ELSE IF ~CanStep(s, p) THEN s
    ELSE RunToCompletion(Body(Acquire(s, p), p), p)

\* =============================================================== state
VARIABLES
    libraries,              \* db.libraries: library id -> stored dict
    documents,              \* db.documents
    chunks,                 \* db.chunks
    document_library_map,   \* db.document_library_map
    chunk_document_map,     \* db.chunk_document_map
    library_lock,           \* the set of processes holding db.library_lock
    document_lock,
    chunk_lock,
    stack,                  \* per process, the frames of the running operation
    last,                   \* the operation that completed in the last step
    disk,                   \* DATA_DIR: library id -> snapshot file
    dataDirOk,              \* whether ensure_data_directory() succeeds
    library_indexers,       \* library_service.library_indexers: library id -> build
    indexing_tasks,         \* library_service.indexing_tasks: library id -> build
    builds,                 \* every indexer created, with the task that fills it
    searches,               \* the search_library calls waiting for the embedder
    opsLeft,                \* operations the environment may still start
    points,                 \* the rows an indexer holds for one library
    leaf_size,              \* BallTreeIndexer.leaf_size
    query,                  \* the embedding of the query text
    top_k,                  \* the top_k of the search
    searched,               \* the indexer that answered, "none" before
    results                 \* what indexer.search returned

storeVars == <<libraries, documents, chunks, document_library_map,
               chunk_document_map, library_lock, document_lock, chunk_lock,
               stack, last, disk, dataDirOk>>
serviceVars == <<library_indexers, indexing_tasks, builds, searches>>
indexVars == <<points, leaf_size, query, top_k, searched, results>>

St == [stack |-> stack, library_lock |-> library_lock,
       document_lock |-> document_lock, chunk_lock |-> chunk_lock,
       last |-> NoEvent, dataDirOk |-> dataDirOk,
       document_library_map |-> document_library_map, documents |-> documents,
       chunk_document_map |-> chunk_document_map, chunks |-> chunks,
       libraries |-> libraries, disk |-> disk, builds |-> builds,
       library_indexers |-> library_indexers, indexing_tasks |-> indexing_tasks,
       searches |-> searches]

Install(s) ==
    /\ libraries' = s.libraries
    /\ documents' = s.documents
    /\ chunks' = s.chunks
    /\ document_library_map' = s.document_library_map
    /\ chunk_document_map' = s.chunk_document_map
    /\ library_lock' = s.library_lock
    /\ document_lock' = s.document_lock
    /\ chunk_lock' = s.chunk_lock
    /\ stack' = s.stack
    /\ last' = s.last
    /\ disk' = s.disk
    /\ dataDirOk' = s.dataDirOk
    /\ library_indexers' = s.library_indexers
    /\ indexing_tasks' = s.indexing_tasks
    /\ builds' = s.builds
    /\ searches' = s.searches
    /\ UNCHANGED indexVars

\* DB() at import, an empty or missing data directory
Fresh(ok) == [stack |-> [p \in Procs |-> <<>>], library_lock |-> {},
              document_lock |-> {}, chunk_lock |-> {}, last |-> NoEvent,
              dataDirOk |-> ok, document_library_map |-> EmptyMap,
              documents |-> EmptyMap, chunk_document_map |-> EmptyMap,
              chunks |-> EmptyMap, libraries |-> EmptyMap, disk |-> EmptyMap,
              builds |-> <<>>, library_indexers |-> EmptyMap,
              indexing_tasks |-> EmptyMap, searches |-> <<>>]

\* no search on an indexer's arrays is followed
NoQuery ==
    /\ points = <<>>
    /\ leaf_size = 1
    /\ query = <<>>
    /\ top_k = 0
    /\ searched = "none"
    /\ results = <<>>

InstallStore0(s) ==
    /\ libraries = s.libraries
    /\ documents = s.documents
    /\ chunks = s.chunks
    /\ document_library_map = s.document_library_map
    /\ chunk_document_map = s.chunk_document_map
    /\ library_lock = s.library_lock
    /\ document_lock = s.document_lock
    /\ chunk_lock = s.chunk_lock
    /\ stack = s.stack
    /\ last = s.last
    /\ disk = s.disk
    /\ dataDirOk = s.dataDirOk
    /\ library_indexers = s.library_indexers
    /\ indexing_tasks = s.indexing_tasks
    /\ builds = s.builds
    /\ searches = s.searches

Install0(s) == InstallStore0(s) /\ NoQuery

\* ====================================================== StoreSpec: threads
\* the arguments the threads pass
NewChunk(c) == [text |-> "t0", id |-> c, embedding |-> "none"]
NestedChunkLists == {<<>>} \cup {<<NewChunk(c)>> : c \in ChunkIds}
NewDocument(d, cs) == [chunks |-> cs, id |-> d, meta |-> "m0"]
NestedDocumentLists ==
    {<<>>} \cup {<<NewDocument(d, cs)>> : d \in DocIds, cs \in NestedChunkLists}
NewLibrary(ds) == [documents |-> ds, name |-> "n0", index_status |-> IndexStatus]

\* {"index_status": {"indexed": true}}, {"indexing_in_progress": true} and
\* {"indexed": true, "indexing_in_progress": true} as Library(**current_library)
\* completes them
LibraryPayloads ==
    {[field |-> "name", value |-> "n1"],
     [field |-> "documents", value |-> "none"],
     [field |-> "index_status", value |-> [IndexStatus EXCEPT !.indexed = TRUE]],
     [field |-> "index_status",
      value |-> [IndexStatus EXCEPT !.indexing_in_progress = TRUE]],
     [field |-> "index_status",
      value |-> [IndexStatus EXCEPT !.indexed = TRUE,
                                    !.indexing_in_progress = TRUE]]}
DocumentPayloads ==
    {[field |-> "meta", value |-> "m1"], [field |-> "chunks", value |-> "none"]}
      \cup {[field |-> "library_id", value |-> l] : l \in LibIds}
ChunkPayloads ==
    {[field |-> "text", value |-> "t1"]}
      \cup {[field |-> "document_id", value |-> d] : d \in DocIds}

\* a thread calls a Store function: the call and its first step
Call(t, f) ==
    LET s0 == Push(St, t, f)
    IN /\ stack[t] = <<>>
       /\ opsLeft > 0
       /\ CanStep(s0, t)
       /\ Install(StoreBody(Acquire(s0, t), t))
       /\ opsLeft' = opsLeft - 1

\* a thread inside fn runs to its next lock acquisition, call or return
Step(t, fn) ==
    /\ CanStep(St, t)
    /\ Top(St, t).fn = fn
    /\ Install(StoreBody(Acquire(St, t), t))
    /\ UNCHANGED opsLeft

CallCreateLibrary(t) ==
    \E l \in LibIds, ds \in NestedDocumentLists :
        Call(t, Frame("create_library", "enter", l, NoId, NoId, NewLibrary(ds)))
CallUpdateLibrary(t) ==
    \E l \in LibIds, pl \in LibraryPayloads :
        Call(t, Frame("update_library", "enter", l, NoId, NoId, pl))
CallDeleteLibrary(t) ==
    \E l \in LibIds : Call(t, Frame("delete_library", "enter", l, NoId, NoId, "none"))
CallCreateDocument(t) ==
    \E d \in DocIds, l \in LibIds, cs \in NestedChunkLists :
        Call(t, Frame("create_document", "store", l, d, NoId,
                      [chunks |-> cs, meta |-> "m0"]))
CallUpdateDocument(t) ==
    \E d \in DocIds, pl \in DocumentPayloads :
        Call(t, Frame("update_document", "apply", NoId, d, NoId, pl))
CallDeleteDocument(t) ==
    \E d \in DocIds : Call(t, Frame("delete_document", "lookup", NoId, d, NoId, "none"))
CallDeleteDocumentsByLibrary(t) ==
    \E l \in LibIds :
        Call(t, Frame("delete_documents_by_library", "scan", l, NoId, NoId, "none"))
CallCreateChunk(t) ==
    \E c \in ChunkIds, d \in DocIds \cup {NoId} :
        Call(t, Frame("create_chunk", "lookup", NoId, d, c,
                      [text |-> "t0", embedding |-> "none"]))
CallUpdateChunk(t) ==
    \E c \in ChunkIds, pl \in ChunkPayloads :
        Call(t, Frame("update_chunk", "map", NoId, NoId, c, pl))
CallDeleteChunk(t) ==
    \E c \in ChunkIds : Call(t, Frame("delete_chunk", "map", NoId, NoId, c, "none"))
CallDeleteChunksByDocument(t) ==
    \E d \in DocIds :
        Call(t, Frame("delete_chunks_by_document", "lookup", NoId, d, NoId, "none"))

\* the process is stopped and started again: the memory is lost, the data
\* directory is kept, and lifespan() loads every snapshot before serving
Restart ==
    /\ opsLeft > 0
    /\ \E order \in ListDirOrders(St) :
          Install(load_all_libraries([Fresh(dataDirOk) EXCEPT !.disk = disk], order))
    /\ opsLeft' = opsLeft - 1

\* the data directory becomes unusable (removed, read-only) or usable again
DataDirChange ==
    /\ opsLeft > 0
    /\ Install([St EXCEPT !.dataDirOk = ~dataDirOk])
    /\ opsLeft' = opsLeft - 1

StoreInit ==
    /\ \E ok \in BOOLEAN : Install0(Fresh(ok))
    /\ opsLeft = MaxStoreOps

StoreNext ==
    \/ \E t \in Threads :
          \/ CallCreateLibrary(t)
          \/ CallUpdateLibrary(t)
          \/ CallDeleteLibrary(t)
          \/ CallCreateDocument(t)
          \/ CallUpdateDocument(t)
          \/ CallDeleteDocument(t)
          \/ CallDeleteDocumentsByLibrary(t)
          \/ CallCreateChunk(t)
          \/ CallUpdateChunk(t)
          \/ CallDeleteChunk(t)
          \/ CallDeleteChunksByDocument(t)
          \/ Step(t, "save_library")
          \/ Step(t, "create_chunk")
          \/ Step(t, "update_chunk")
          \/ Step(t, "delete_chunk")
          \/ Step(t, "delete_chunks_by_document")
          \/ Step(t, "create_document")
          \/ Step(t, "update_document")
          \/ Step(t, "delete_document")
          \/ Step(t, "delete_documents_by_library")
          \/ Step(t, "create_library")
          \/ Step(t, "delete_library")
    \/ Restart
    \/ DataDirChange

vars == <<storeVars, serviceVars, opsLeft, indexVars>>

StoreSpec == StoreInit /\ [][StoreNext]_vars

\* ======================================================= Spec: the service
\* a request arrives and its handler runs
Handle(f) ==
    /\ stack[Loop] = <<>>
    /\ opsLeft > 0
    /\ Install(RunToCompletion(Push(St, Loop, f), Loop))
    /\ opsLeft' = opsLeft - 1

PostLibrary ==
    \E l \in LibIds, ds \in NestedDocumentLists :
        Handle(Frame("LibraryService.create_library", "start", l, NoId, NoId,
                     NewLibrary(ds)))
PatchLibrary ==
    \E l \in LibIds, pl \in LibraryPayloads :
        Handle(Frame("LibraryService.update_library", "start", l, NoId, NoId, pl))
DeleteLibrary ==
    \E l \in LibIds :
        Handle(Frame("LibraryService.delete_library", "start", l, NoId, NoId, "none"))
PostDocument ==
    \E d \in DocIds, l \in LibIds, cs \in NestedChunkLists :
        Handle(Frame("DocumentService.create_document", "start", l, d, NoId,
                     [chunks |-> cs, meta |-> "m0"]))
PatchDocument ==
    \E d \in DocIds, pl \in DocumentPayloads :
        Handle(Frame("DocumentService.update_document", "start", NoId, d, NoId, pl))
DeleteDocument ==
    \E d \in DocIds :
        Handle(Frame("DocumentService.delete_document", "start", NoId, d, NoId, "none"))
PostChunk ==
    \E c \in ChunkIds, d \in DocIds \cup {NoId}, e \in {"none", "dimE"} :
        Handle(Frame("ChunkService.create_chunk", "start", NoId, d, c,
                     [text |-> "t0", embedding |-> e]))
PatchChunk ==
    \E c \in ChunkIds, pl \in ChunkPayloads :
        Handle(Frame("ChunkService.update_chunk", "start", NoId, NoId, c, pl))
DeleteChunk ==
    \E c \in ChunkIds :
        Handle(Frame("ChunkService.delete_chunk", "start", NoId, NoId, c, "none"))

\* POST /libraries/{id}/index
PostIndex ==
    /\ stack[Loop] = <<>>
    /\ opsLeft > 0
    /\ Len(builds) < MaxBuilds
    /\ \E l \in LibIds, k \in IndexerTypes : Install(start_indexing_library(St, l, k))
    /\ opsLeft' = opsLeft - 1

\* POST /libraries/{id}/search, up to its await
PostSearch ==
    /\ stack[Loop] = <<>>
    /\ opsLeft > 0
    /\ Len(searches) < MaxSearches
    /\ \E l \in LibIds : Install(search_library(St, l))
    /\ opsLeft' = opsLeft - 1

\* the event loop gives control to a task created by asyncio.create_task
RunTask ==
    /\ stack[Loop] = <<>>
    /\ \E i \in DOMAIN builds :
          /\ builds[i].pc = "pending"
          /\ Install(TaskFirstRun(St, i))
    /\ UNCHANGED opsLeft

\* the embedder's response reaches a task or a search that awaits it
WakeTask ==
    /\ stack[Loop] = <<>>
    /\ \E i \in DOMAIN builds, r \in {"ok", "error"} :
          /\ builds[i].pc = "embedding"
          /\ Install(TaskWakeUp(St, i, r))
    /\ UNCHANGED opsLeft

WakeSearch ==
    /\ stack[Loop] = <<>>
    /\ \E j \in DOMAIN searches, r \in {"ok", "error"} : Install(SearchWakeUp(St, j, r))
    /\ UNCHANGED opsLeft

Init ==
    /\ \E ok \in BOOLEAN : Install0(Fresh(ok))
    /\ opsLeft = MaxOps

Next ==
    \/ PostLibrary
    \/ PatchLibrary
    \/ DeleteLibrary
    \/ PostDocument
    \/ PatchDocument
    \/ DeleteDocument
    \/ PostChunk
    \/ PatchChunk
    \/ DeleteChunk
    \/ PostIndex
    \/ PostSearch
    \/ RunTask
    \/ WakeTask
    \/ WakeSearch
    \/ Restart
    \/ DataDirChange

Spec == Init /\ [][Next]_vars

\* ============================================================== claims
\* C1: every chunk in the Store has a document_id that refers to an existing
\* document, and chunk_document_map[c.id] = c.document_id.
C1_ChunkParentExists ==
    \A c \in DOMAIN chunks :
        /\ chunks[c].document_id \in DOMAIN documents
        /\ c \in DOMAIN chunk_document_map
        /\ chunk_document_map[c] = chunks[c].document_id

\* C2: every document in the Store has a library_id that refers to an
\* existing library, and document_library_map[d.id] = d.library_id.
C2_DocumentParentExists ==
    \A d \in DOMAIN documents :
        /\ documents[d].library_id \in DOMAIN libraries
        /\ d \in DOMAIN document_library_map
        /\ document_library_map[d] = documents[d].library_id

\* the documents whose ancestry points to library l
DocsPointingTo(l) ==
    {d \in DOMAIN documents : documents[d].library_id = l}
      \cup {d \in DOMAIN document_library_map : document_library_map[d] = l}

\* C3: after delete_library(L) returns true the Store holds no library L, no
\* document whose library_id is L, no chunk of such a document, and no entry
\* of either relationship map for them.
C3_DeleteLibraryCascades ==
    (last.fn = "delete_library" /\ last.val = "True") =>
        /\ last.lib \notin DOMAIN libraries
        /\ DocsPointingTo(last.lib) = {}
        /\ \A c \in DOMAIN chunks :
              chunks[c].document_id \notin DocsPointingTo(last.lib)
        /\ \A c \in DOMAIN chunk_document_map :
              chunk_document_map[c] \notin DocsPointingTo(last.lib)

\* the service methods that write a document or a chunk, and their results
\* other than None, False and an exception
DocumentAndChunkWrites ==
    {"ChunkService.create_chunk", "ChunkService.update_chunk",
     "ChunkService.delete_chunk", "DocumentService.create_document",
     "DocumentService.update_document", "DocumentService.delete_document"}
WriteSucceeded ==
    last.fn \in DocumentAndChunkWrites /\ last.val \in {"chunk", "document", "True"}

\* C4: after a successful create, update or delete of a document or of a
\* chunk of library L through DocumentService or ChunkService,
\* L.index_status.indexed is false.
C4_WritesInvalidateIndex ==
    (WriteSucceeded /\ last.lib \in DOMAIN libraries) =>
        ~libraries[last.lib].index_status.indexed

\* C5: whenever index_status.indexed is true for a library, an index for it
\* is installed in library_indexers and the build of that index ran to
\* completion before.
C5_IndexedImpliesBuilt ==
    \A l \in DOMAIN libraries :
        libraries[l].index_status.indexed =>
            /\ l \in DOMAIN library_indexers
            /\ builds[library_indexers[l]].outcome = "ok"

BuildEnded(val) == last.fn = "_index_library_task" /\ last.val = val

\* C6: after a build of kind k for library L completes successfully,
\* L.index_status is {indexed = true, indexer_type = k, indexing_in_progress
\* = false, last_indexed = t} and library_indexers holds the index built.
C6_SuccessfulBuild ==
    BuildEnded("ok") =>
        /\ last.lib \in DOMAIN libraries
        /\ libraries[last.lib].index_status =
              [indexed |-> TRUE, indexer_type |-> builds[last.arg].kind,
               last_indexed |-> "t", indexing_in_progress |-> FALSE]
        /\ last.lib \in DOMAIN library_indexers
        /\ library_indexers[last.lib] = last.arg

C6_Witness ==
    /\ BuildEnded("ok")
    /\ DocsOfLibrary(St, last.lib) # {}
    /\ builds[last.arg].kind = "BALL_TREE"

C8_OneBuildInFlight ==
    /\ \A l \in LibIds : Cardinality(LiveBuilds(St, l)) <= 1
    /\ (last.fn = "start_indexing_library" /\ last.val = "indexing_started") =>
          LiveBuilds(St, last.lib) = {Len(builds)}

C8_Witness ==
    /\ last.fn = "start_indexing_library"
    /\ last.val = "indexing_in_progress"
    /\ Cardinality(LiveBuilds(St, last.lib)) = 1

SearchAllowed(a) == a.exists /\ a.indexed /\ ~a.building /\ a.installed

DeleteLibraryReturned == last.fn = "LibraryService.delete_library"

\* C10: after LibraryService.delete_library(L) returns, library_indexers and
\* indexing_tasks have no entry for L and no build of L is in flight; and a
\* step of a cancelled build installs no index and writes no index status.
C10_DeleteDropsIndexAndBuild ==
    /\ [](DeleteLibraryReturned =>
            /\ last.lib \notin DOMAIN library_indexers
            /\ last.lib \notin DOMAIN indexing_tasks
            /\ LiveBuilds(St, last.lib) = {})
    /\ [][BuildEnded("cancelled")' =>
            /\ library_indexers' = library_indexers
            /\ libraries' = libraries]_vars

C10_Witness ==
    /\ DeleteLibraryReturned
    /\ last.val = "True"
    /\ \E i \in DOMAIN builds : builds[i].lib = last.lib /\ builds[i].cancelled

\* C11: a thread that holds Store locks asks for the next one in the order
\* library_lock, document_lock, chunk_lock: it never asks for library_lock
\* while it holds document_lock or chunk_lock, nor for document_lock while it
\* holds chunk_lock.
C11_LockOrder ==
    \A p \in Procs :
        stack[p] # <<>> =>
            LET lk == Needs(St, Top(St, p))
            IN /\ lk = "library_lock" =>
                      HeldBy(St, p) \cap {"document_lock", "chunk_lock"} = {}
               /\ lk = "document_lock" => "chunk_lock" \notin HeldBy(St, p)

\* C12: a thread that is about to write the snapshot file (save_library has
\* left its three with-blocks) holds no Store lock, its callers' included.
C12_NoLockAcrossDiskWrite ==
    \A p \in Procs :
        \A i \in 1..Len(stack[p]) :
            (stack[p][i].fn = "save_library" /\ stack[p][i].pc = "write") =>
                HeldBy(St, p) = {}

C12_Witness ==
    \E p \in Threads :
        /\ Len(stack[p]) = 2
        /\ stack[p][1].fn \in {"create_chunk", "update_chunk", "delete_chunk"}
        /\ stack[p][2].fn = "save_library"
        /\ stack[p][2].pc = "write"
        /\ dataDirOk

\* save_library(l) run by itself on the entities of the current state (no
\* other thread, a usable data directory), and the file it wrote loaded into
\* an empty Store
SavedAlone(l) ==
    RunToCompletion(
        Push([St EXCEPT !.stack = [p \in Procs |-> <<>>],
                        !.library_lock = {}, !.document_lock = {},
                        !.chunk_lock = {}, !.dataDirOk = TRUE, !.disk = EmptyMap],
             Loop, Frame("save_library", "library", l, NoId, NoId, "none")),
        Loop)
Reloaded(l) ==
    load_library_from_file([Fresh(TRUE) EXCEPT !.disk = SavedAlone(l).disk], l)

\* the subtree of library l by the parent fields of the entities
DocumentsIn(l) == {d \in DOMAIN documents : documents[d].library_id = l}
ChunksIn(l) == {c \in DOMAIN chunks : chunks[c].document_id \in DocumentsIn(l)}

C14_LoadedNotIndexed ==
    \A l \in DOMAIN disk :
        ~load_library_from_file([Fresh(TRUE) EXCEPT !.disk = disk], l)
              .libraries[l].index_status.indexed

\* ============================================ LoadSpec: files at startup
\* The data directory holds one library file of any well-formed content
\* (every record has its id and its parent field) when the process starts.
FileDocuments ==
    UNION {{[d \in ds |-> [id |-> d, library_id |-> ls[d], meta |-> "m0"]] :
                ls \in [ds -> LibIds]} : ds \in SUBSET DocIds}
FileChunks ==
    UNION {{[c \in cs |-> [document_id |-> ps[c], text |-> "t0", id |-> c]] :
                ps \in [cs -> DocIds]} : cs \in SUBSET ChunkIds}
LibraryFiles(l) ==
    [documents : FileDocuments, chunks : FileChunks,
     library : {[id |-> l, name |-> "n0", index_status |-> IndexStatus]}]

LoadInit ==
    /\ \E l \in LibIds : \E file \in LibraryFiles(l) :
          Install0([Fresh(TRUE) EXCEPT !.disk = Put(EmptyMap, l, file)])
    /\ opsLeft = 1

LoadNext == Restart

LoadSpec == LoadInit /\ [][LoadNext]_vars

\* C15: a load installs a document only if its library_id is the id of the
\* file's library and a chunk only if its document_id is a document loaded
\* from the file, so that after a load every document has its library and
\* every chunk has its document.
C15_LoadKeepsIntegrity ==
    /\ \A d \in DOMAIN documents : documents[d].library_id \in DOMAIN libraries
    /\ \A c \in DOMAIN chunks : chunks[c].document_id \in DOMAIN documents

\* C16: after a Store mutation of a library's content a snapshot save is
\* triggered and the snapshot written reflects the mutation.  Stated for the
\* mutations of the library itself that complete while the data directory
\* is usable: the file of the library exists and holds the library as stored.
C16_MutationsAreSaved ==
    (/\ last.fn \in {"create_library", "update_library"}
     /\ last.val = "library"
     /\ dataDirOk
     /\ last.lib \in DOMAIN libraries) =>
        /\ last.lib \in DOMAIN disk
        /\ disk[last.lib].library = libraries[last.lib]

\* C17: an index is in library_indexers only once its build has completed
\* (and is not filled afterwards).
C17_InstalledIndexIsBuilt ==
    \A l \in DOMAIN library_indexers :
        /\ builds[library_indexers[l]].pc = "done"
        /\ builds[library_indexers[l]].outcome = "ok"

\* thread t runs the `with db.document_lock:` block of update_document in this
\* step, with an existing document and a library_id that is not the stored one
UpdatesDocumentParent(t) ==
    /\ stack[t] = <<>>
    /\ \/ last'.fn = "update_document" /\ last'.proc = t
       \/ stack'[t] # <<>> /\ stack'[t][1].fn = "update_document"
    /\ LET f == IF stack'[t] = <<>> THEN last' ELSE stack'[t][1]
       IN /\ f.doc \in DOMAIN documents
          /\ f.arg.field = "library_id"
          /\ f.arg.value # documents[f.doc].library_id

\* thread t runs the last `with db.chunk_lock:` block of update_chunk in this
\* step, with an existing chunk and a document_id that is not the stored one
UpdatesChunkParent(t) ==
    /\ Len(stack[t]) = 1
    /\ stack[t][1].fn = "update_chunk"
    /\ stack[t][1].pc = "apply"
    /\ stack'[t] # stack[t]
    /\ opsLeft' = opsLeft
    /\ LET f == stack[t][1]
       IN /\ f.chunk \in DOMAIN chunks
          /\ f.arg.field = "document_id"
          /\ f.arg.value # chunks[f.chunk].document_id

\* C18: update_document with a library_id other than the stored one, and
\* update_chunk with a document_id other than the stored one, end with a
\* ValueError and change neither the entity, nor the two relationship maps,
\* nor anything else the Store holds.
C18_ParentReferenceImmutable ==
    [][\A t \in Threads :
          (UpdatesDocumentParent(t) \/ UpdatesChunkParent(t)) =>
              /\ last'.val = "ValueError"
              /\ last'.proc = t
              /\ UNCHANGED <<libraries, documents, chunks, document_library_map,
                             chunk_document_map, disk>>]_vars

C18_Witness ==
    /\ last.val = "ValueError"
    /\ \/ /\ last.fn = "update_chunk"
          /\ last.chunk \in DOMAIN chunks
          /\ last.arg.field = "document_id"
          /\ chunks[last.chunk].document_id \notin {NoId, last.arg.value}
       \/ /\ last.fn = "update_document"
          /\ last.doc \in DOMAIN documents
          /\ last.arg.field = "library_id"
          /\ documents[last.doc].library_id # last.arg.value

\* a create of the Store called from the current state by a caller that runs
\* alone, up to its return, its exception or the lock it waits for
CreatedAlone(f) == RunToCompletion(Push(St, Loop, f), Loop)
StoreOf(s) ==
    <<s.libraries, s.documents, s.chunks, s.document_library_map,
      s.chunk_document_map>>
FailsUnchanged(f) ==
    /\ CreatedAlone(f).last.val = "ValueError"
    /\ StoreOf(CreatedAlone(f)) = StoreOf(St)

\* C19: a create fails and leaves the Store as it was when the id is taken by
\* an entity of the same kind or when the parent does not exist (a document
\* whose library is missing, a chunk whose document is missing); every other
\* create installs the entity and its entry in the relationship map.
C19_CreateChecksIdAndParent ==
    (library_lock = {} /\ document_lock = {} /\ chunk_lock = {}) =>
        /\ \A l \in LibIds, ds \in NestedDocumentLists :
              LET f == Frame("create_library", "enter", l, NoId, NoId, NewLibrary(ds))
              IN IF l \in DOMAIN libraries THEN FailsUnchanged(f)
                 ELSE l \in DOMAIN CreatedAlone(f).libraries
        /\ \A d \in DocIds, l \in LibIds, cs \in NestedChunkLists :
              LET f == Frame("create_document", "store", l, d, NoId,
                             [chunks |-> cs, meta |-> "m0"])
              IN IF d \in DOMAIN documents \/ l \notin DOMAIN libraries
                 THEN FailsUnchanged(f)
                 ELSE /\ d \in DOMAIN CreatedAlone(f).documents
                      /\ Get(CreatedAlone(f).document_library_map, d) = l
        /\ \A c \in ChunkIds, d \in DocIds \cup {NoId} :
              LET f == Frame("create_chunk", "lookup", NoId, d, c,
                             [text |-> "t0", embedding |-> "none"])
              IN IF c \in DOMAIN chunks \/ d \notin DOMAIN documents
                 THEN FailsUnchanged(f)
                 ELSE /\ c \in DOMAIN CreatedAlone(f).chunks
                      /\ Get(CreatedAlone(f).chunk_document_map, c) = d

\* delete_document(d) called from the current state by a caller that runs
\* alone, up to its return or the lock it waits for
DeletedAlone(d) ==
    RunToCompletion(
        Push(St, Loop, Frame("delete_document", "lookup", NoId, d, NoId, "none")),
        Loop)
ChunksOfDocument(d) == {c \in DOMAIN chunks : chunks[c].document_id = d}

\* C20: delete_document(D) on a stored document returns true with D removed,
\* every chunk whose document_id is D removed, the document_library_map entry
\* of D and the chunk_document_map entries of those chunks removed, and every
\* other document and chunk as it was.
C20_DeleteDocumentCascades ==
    (library_lock = {} /\ document_lock = {} /\ chunk_lock = {}) =>
        \A d \in DOMAIN documents :
            LET r == DeletedAlone(d)
                rest == (DOMAIN chunks) \ ChunksOfDocument(d)
            IN /\ r.last.fn = "delete_document"
               /\ r.last.val = "True"
               /\ d \notin DOMAIN r.documents
               /\ d \notin DOMAIN r.document_library_map
               /\ DOMAIN r.chunks = rest
               /\ DOMAIN r.chunk_document_map \cap ChunksOfDocument(d) = {}
               /\ \A c \in rest : r.chunks[c] = chunks[c]
               /\ \A e \in (DOMAIN documents) \ {d} :
                      e \in DOMAIN r.documents /\ r.documents[e] = documents[e]

\* C21: mark_library_unindexed on an indexed library sets `indexed` to false
\* and changes nothing else: indexer_type, last_indexed and
\* indexing_in_progress, the installed index and the build task stay as they
\* are; on a library that is not indexed it changes nothing at all.
C21_InvalidationFrame ==
    \A l \in DOMAIN libraries :
        LET r == mark_library_unindexed(St, l)
        IN IF libraries[l].index_status.indexed
           THEN r = [St EXCEPT !.libraries[l].index_status.indexed = FALSE]
           ELSE r = St

\* C22: a LibraryService.update_library request on a library whose
\* indexing_in_progress is true ends with a ValueError and leaves the stored
\* library, like the rest of the Store, as it was.
C22_UpdateBlockedWhileIndexing ==
    [][(/\ last'.fn = "LibraryService.update_library"
        /\ last'.lib \in DOMAIN libraries
        /\ libraries[last'.lib].index_status.indexing_in_progress) =>
           /\ last'.val = "ValueError"
           /\ UNCHANGED <<libraries, documents, chunks, document_library_map,
                          chunk_document_map, disk, library_indexers,
                          indexing_tasks, builds>>]_vars

C22_Witness ==
    /\ last.fn = "LibraryService.update_library"
    /\ last.val = "ValueError"
    /\ last.arg.field = "name"
    /\ last.lib \in DOMAIN libraries
    /\ libraries[last.lib].index_status.indexing_in_progress
    /\ last.lib \in DOMAIN indexing_tasks

\* ================================================ IndexSpec: the indexers
\* The arrays of one library inside an indexer and one search on them. The
\* rows are vectors of small integers, so every comparison of distances and
\* of similarities below is exact; the rounding of float32 is not modelled.
MaxCoord == 2
MaxPoints == 3
MaxK == 3
MaxLeafSize == 2

Rows == [1..2 -> 0..MaxCoord]
PointLists == UNION {[1..n -> Rows] : n \in 0..MaxPoints}
\* the embedder's answer: as wide as the rows, or wider
Queries == Rows \cup {[d \in 1..3 |-> 1]}

RECURSIVE SumSeq(_)
SumSeq(s) == IF s = <<>> THEN 0 ELSE Head(s) + SumSeq(Tail(s))
Sq(x) == x * x
Smaller(a, b) == IF a < b THEN a ELSE b

\* numpy broadcasting of two 1-d arrays: equal lengths, or one of length 1
Broadcasts(a, b) == Len(a) = Len(b) \/ Len(a) = 1 \/ Len(b) = 1
At(v, d) == IF Len(v) = 1 THEN v[1] ELSE v[d]
Width(a, b) == IF Len(a) > Len(b) THEN Len(a) ELSE Len(b)

\* n^2 * |v - S/n|^2: the squared distance from v to the mean of n rows whose
\* sum is S, without the division
ScaledDist2(v, S, n) ==
    SumSeq([d \in 1..Width(v, S) |-> Sq(n * At(v, d) - At(S, d))])
\* np.linalg.norm(a - b), squared
Dist2(a, b) == ScaledDist2(a, b, 1)

\* np.argsort of a short array (insertion sort below 17 elements: stable)
Rank(keys, i) ==
    Cardinality({j \in DOMAIN keys :
                    keys[j] < keys[i] \/ (keys[j] = keys[i] /\ j < i)}) + 1
argsort_unsorted(keys) == [r \in 1..Len(keys) |-> r]
argsort(keys) ==
    [r \in 1..Len(keys) |-> CHOOSE i \in DOMAIN keys : Rank(keys, i) = r]

\* np.argmax: the first position of the largest value
argmax(f) ==
    CHOOSE d \in DOMAIN f :
        \A e \in DOMAIN f : f[e] <= f[d] /\ (e < d => f[e] < f[d])

\* ------------------------------------------------- ball_tree_indexer.py
\* the sum of the rows of a node (np.mean is total / count)
Total(P, indices) ==
    [d \in 1..Len(P[indices[1]]) |->
        SumSeq([i \in 1..Len(indices) |-> P[indices[i]][d]])]

\* n^2 * np.var(points, axis=0)
Variances(P, indices) ==
    LET n == Len(indices)
    IN [d \in 1..Len(P[indices[1]]) |->
           n * SumSeq([i \in 1..n |-> Sq(P[indices[i]][d])])
             - Sq(SumSeq([i \in 1..n |-> P[indices[i]][d]]))]

\* BallNode.__init__: a node keeps the sum and the number of its rows (its
\* center is total / count) and count^2 * radius^2
RECURSIVE BallNode(_, _, _)
BallNode(P, indices, ls) ==
    LET n == Len(indices)
        S == Total(P, indices)
        r2 == CHOOSE m \in {ScaledDist2(P[indices[i]], S, n) : i \in 1..n} :
                  \A i \in 1..n : ScaledDist2(P[indices[i]], S, n) <= m
        variances == Variances(P, indices)
        split_dim == argmax(variances)
        sorted_indices == argsort([i \in 1..n |-> P[indices[i]][split_dim]])
        half == n \div 2
        median_idx == IF half = 0 THEN 1 ELSE IF half = n THEN n - 1 ELSE half
        left_indices == [i \in 1..median_idx |-> indices[sorted_indices[i]]]
        right_indices ==
            [i \in 1..(n - median_idx) |-> indices[sorted_indices[median_idx + i]]]
    IN IF n <= ls \/ \A d \in DOMAIN variances : variances[d] = 0
       THEN [indices |-> indices, total |-> S, count |-> n, radius2 |-> r2,
             leaf |-> TRUE, left |-> <<>>, right |-> <<>>]
       ELSE [indices |-> indices, total |-> S, count |-> n, radius2 |-> r2,
             leaf |-> FALSE, left |-> BallNode(P, left_indices, ls),
             right |-> BallNode(P, right_indices, ls)]

\* BallTree.build: the root, <<>> for `self.root = None`
build(P, ls) ==
    IF P = <<>> THEN <<>> ELSE BallNode(P, [i \in 1..Len(P) |-> i], ls)

\* results.sort() on (dist, index) tuples
SortPairs(res) ==
    LET before(j, i) ==
            \/ res[j][1] < res[i][1]
            \/ res[j][1] = res[i][1] /\ res[j][2] < res[i][2]
            \/ res[j] = res[i] /\ j < i
        rank(i) == Cardinality({j \in DOMAIN res : before(j, i)}) + 1
    IN [r \in 1..Len(res) |-> res[CHOOSE i \in DOMAIN res : rank(i) = r]]

\* the body of `for i in node.indices:` of a leaf
VisitPoint(P, q, k, res, i) ==
    LET dist == Dist2(q, P[i])
    IN IF i > Len(P) THEN res
       ELSE IF Len(res) < k THEN SortPairs(Append(res, <<dist, i>>))
       ELSE IF dist < res[Len(res)][1]
       THEN SortPairs([res EXCEPT ![Len(res)] = <<dist, i>>])
       ELSE res

RECURSIVE ScanLeaf(_, _, _, _, _)
ScanLeaf(P, indices, q, k, res) ==
    IF indices = <<>> THEN res
    ELSE ScanLeaf(P, Tail(indices), q, k, VisitPoint(P, q, k, res, Head(indices)))

\* `dist_to_center - radius <= farthest_dist` on squares scaled by count^2:
\* a is the squared distance to the center, r the squared radius, f the
\* squared distance of the farthest result
WithinReach_center(a, r, f) == a <= f
WithinReach(a, r, f) ==
    LET e == a - r - f IN e <= 0 \/ Sq(e) <= 4 * r * f

\* `len(results) < k or <distance to node's center> - node.radius <= farthest_dist`
MustSearch(q, node, k, res) ==
    \/ Len(res) < k
    \/ WithinReach(ScaledDist2(q, node.total, node.count), node.radius2,
                   Sq(node.count) * res[Len(res)][1])

\* left_dist < right_dist
LeftIsCloser(q, node) ==
    ScaledDist2(q, node.left.total, node.left.count) * Sq(node.right.count)
        < ScaledDist2(q, node.right.total, node.right.count) * Sq(node.left.count)

\* BallTree._search_node
RECURSIVE search_node(_, _, _, _, _)
search_node(P, node, q, k, res) ==
    IF node.leaf THEN ScanLeaf(P, node.indices, q, k, res)
    ELSE IF ~MustSearch(q, node, k, res) THEN res
    ELSE IF LeftIsCloser(q, node)
    THEN LET r1 == search_node(P, node.left, q, k, res)
         IN IF MustSearch(q, node.right, k, r1)
            THEN search_node(P, node.right, q, k, r1) ELSE r1
    ELSE LET r1 == search_node(P, node.right, q, k, res)
         IN IF MustSearch(q, node.left, k, r1)
            THEN search_node(P, node.left, q, k, r1) ELSE r1

\* BallTree.search: (squared distance, index) pairs, nearest first
BallTree_search(P, root, q, k) ==
    LET kk == Smaller(k, Len(P))
    IN IF root = <<>> THEN <<>>
       ELSE IF kk <= 0 THEN <<>>
       ELSE search_node(P, root, q, kk, <<>>)

\* BallTreeIndexer.search after the embedder answered. A result is the pair
\* (squared distance, index of the chunk): similarity = 1 / (1 + dist)
\* decreases when the distance grows, so the sort by similarity, highest
\* first, is the stable sort by distance, lowest first. A query that numpy
\* cannot subtract from a center raises inside `try:` and [] is returned.
BallTreeIndexer_search(P, ls, q, k) ==
    IF P = <<>> THEN <<>>
    ELSE IF ~Broadcasts(q, P[1]) THEN <<>>
    ELSE LET found == BallTree_search(P, build(P, ls), q, Smaller(k, Len(P)))
             order == argsort([i \in 1..Len(found) |-> found[i][1]])
         IN [i \in 1..Len(found) |-> found[order[i]]]

\* ------------------------------------------------ brute_force_indexer.py
Dot(a, b) == SumSeq([d \in 1..Len(a) |-> a[d] * b[d]])
\* np.linalg.norm squared, with `vector_norms[vector_norms == 0] = 1.0`
Norm2(v) == IF Dot(v, v) = 0 THEN 1 ELSE Dot(v, v)

\* similarities[i] < similarities[j], where similarities[i] is
\* Dot(P[i], q) / (|P[i]| * |q|); the norm of the query is the same positive
\* factor on both sides (a zero query is left as it is: every product is 0)
SimLess(P, q, i, j) ==
    LET a == Dot(P[i], q)
        b == Dot(P[j], q)
    IN IF a >= 0 /\ b >= 0 THEN Sq(a) * Norm2(P[j]) < Sq(b) * Norm2(P[i])
       ELSE IF a < 0 /\ b >= 0 THEN TRUE
       ELSE IF a >= 0 /\ b < 0 THEN FALSE
       ELSE Sq(a) * Norm2(P[j]) > Sq(b) * Norm2(P[i])

\* np.argsort(similarities)
SimOrder(P, q) ==
    LET rank(i) ==
            Cardinality({j \in DOMAIN P :
                            SimLess(P, q, j, i)
                            \/ (~SimLess(P, q, i, j) /\ j < i)}) + 1
    IN [r \in 1..Len(P) |-> CHOOSE i \in DOMAIN P : rank(i) = r]

\* `np.argsort(similarities)[-top_k:][::-1]`; the slice [-0:] is the whole array
TopIndices_lowest(order, k) ==
    [i \in 1..Smaller(k, Len(order)) |-> order[i]]
TopIndices(order, k) ==
    LET n == Len(order)
        m == IF k = 0 \/ k > n THEN n ELSE k
    IN [i \in 1..m |-> order[n + 1 - i]]

\* results.sort(key=similarity_score, reverse=True): stable, equal scores
\* keep their order
SortBySimilarity(P, q, res) ==
    LET rank(i) ==
            Cardinality({j \in DOMAIN res :
                            SimLess(P, q, res[i], res[j])
                            \/ (~SimLess(P, q, res[j], res[i]) /\ j < i)}) + 1
    IN [r \in 1..Len(res) |-> res[CHOOSE i \in DOMAIN res : rank(i) = r]]

\* np.dot(normalized_vectors, query_embedding) needs rows as wide as the query
DotRaises(P, q) == Len(P[1]) # Len(q)

\* BruteForceIndexer.search after the embedder answered: the indices of the
\* chunks returned, best first
BruteForceIndexer_search(P, q, k) ==
    IF P = <<>> THEN <<>>
    ELSE LET res == SortBySimilarity(P, q, TopIndices(SimOrder(P, q), k))
         IN SubSeq(res, 1, Smaller(k, Len(res)))

\* --------------------------------------------------------------- the spec
IndexInit ==
    /\ InstallStore0(Fresh(TRUE))
    /\ opsLeft = 0
    /\ points \in PointLists
    /\ leaf_size \in 1..MaxLeafSize
    /\ query \in Queries
    /\ top_k \in 0..MaxK
    /\ searched = "none"
    /\ results = <<>>

BallTreeSearch ==
    /\ searched = "none"
    /\ searched' = "BALL_TREE"
    /\ results' = BallTreeIndexer_search(points, leaf_size, query, top_k)
    /\ UNCHANGED <<storeVars, serviceVars, opsLeft, points, leaf_size, query, top_k>>

BruteForceSearch ==
    /\ searched = "none"
    /\ IF points # <<>> /\ DotRaises(points, query)
       THEN searched' = "BRUTE_FORCE raised" /\ results' = <<>>
       ELSE /\ searched' = "BRUTE_FORCE"
            /\ results' = BruteForceIndexer_search(points, query, top_k)
    /\ UNCHANGED <<storeVars, serviceVars, opsLeft, points, leaf_size, query, top_k>>

IndexNext == BallTreeSearch \/ BruteForceSearch

IndexSpec == IndexInit /\ [][IndexNext]_vars

\* the chunks a ball-tree search returned
Returned == {results[i][2] : i \in DOMAIN results}

\* C23: the points a ball-tree search returns are a true Euclidean top-k: each
\* comes with its own distance to the query, and no point left out is strictly
\* closer to the query than a point returned, whatever the rows, the leaf
\* size, the query and k.
C23_BallTreeTopK ==
    searched = "BALL_TREE" =>
        \A i \in DOMAIN results :
            /\ results[i][2] \in DOMAIN points
            /\ results[i][1] = Dist2(query, points[results[i][2]])
            /\ \A j \in (DOMAIN points) \ Returned :
                  Dist2(query, points[j]) >= results[i][1]

\* a search that skipped the farther child of the root
C23_Witness ==
    /\ searched = "BALL_TREE"
    /\ Len(points) = 3
    /\ Len(results) = top_k
    /\ top_k \in 1..2
    /\ LET root == build(points, leaf_size)
       IN /\ ~root.leaf
          /\ IF LeftIsCloser(query, root)
             THEN ~MustSearch(query, root.right, top_k,
                              search_node(points, root.left, query, top_k, <<>>))
             ELSE ~MustSearch(query, root.left, top_k,
                              search_node(points, root.right, query, top_k, <<>>))

Above(c) == {j \in DOMAIN points : SimLess(points, query, c, j)}
NotBelow(c) == {j \in DOMAIN points : ~SimLess(points, query, j, c)}

\* C25: a brute-force search returns min(k, n) distinct chunks of the library
\* in the order of descending cosine similarity to the query: the i-th result
\* has the i-th largest similarity among the n indexed chunks.
C25_LinearOrdering ==
    searched = "BRUTE_FORCE" =>
        /\ Len(results) = Smaller(top_k, Len(points))
        /\ \A i \in DOMAIN results :
              /\ results[i] \in DOMAIN points
              /\ \A j \in DOMAIN results : results[i] = results[j] => i = j
              /\ Cardinality(Above(results[i])) < i
              /\ Cardinality(NotBelow(results[i])) >= i

C25_Witness ==
    /\ searched = "BRUTE_FORCE"
    /\ Len(points) = 3
    /\ top_k = 2
    /\ Len(results) = 2
    /\ Above(results[1]) = {}
    /\ Above(results[2]) = {results[1]}
    /\ results[1] > results[2]

\* ------------------------------------------- routers/v1/library.py: search
\* The text of the ValueError raised for each refusal of search_library, as
\* its words (a full stop is a word of its own; "<id>" is the UUID).
RefusalMessage(r) ==
    CASE r = "not found" ->
             <<"Library", "with", "ID", "<id>", "not", "found">>
      [] r = "being indexed" ->
             <<"Library", "is", "currently", "being", "indexed", ".", "Please",
               "try", "again", "later", ".">>
      [] r = "not indexed" ->
             <<"Library", "is", "not", "indexed", ".", "Please", "index", "the",
               "library", "before", "searching", ".">>
      [] r = "no indexer" ->
             <<"No", "indexer", "found", "for", "library", ".", "Please",
               "re-index", "the", "library", ".">>

\* str.lower() on the words above
Lower(w) ==
    CASE w = "Library" -> "library"
      [] w = "ID" -> "id"
      [] w = "Please" -> "please"
      [] w = "No" -> "no"
      [] OTHER -> w
LowerAll(text) == [i \in DOMAIN text |-> Lower(text[i])]

\* `sub in text` for a sub made of whole words
Contains(text, sub) ==
    \E i \in 0..(Len(text) - Len(sub)) :
        \A j \in 1..Len(sub) : text[i + j] = sub[j]

\* the `except ValueError` branch of the search route: the HTTP status
ValueErrorStatus(text) ==
    IF Contains(LowerAll(text), <<"not", "indexed">>)
       \/ Contains(LowerAll(text), <<"being", "indexed">>)
    THEN 409
    ELSE IF Contains(LowerAll(text), <<"not", "found">>) THEN 404
    ELSE 400

\* C26: a search refused because the library is being indexed, is not
\* indexed, or has no index installed is answered with HTTP 409, and a search
\* on an unknown library with HTTP 404.
C26_SearchRefusalStatus ==
    last.fn = "search_library" =>
        /\ last.val \in {"being indexed", "not indexed", "no indexer"} =>
              ValueErrorStatus(RefusalMessage(last.val)) = 409
        /\ last.val = "not found" =>
              ValueErrorStatus(RefusalMessage(last.val)) = 404

\* a thread's update_library ends in this step, called with a "documents"
\* field on a stored library
InjectsDocuments ==
    /\ last'.fn = "update_library"
    /\ last'.arg.field = "documents"
    /\ last'.lib \in DOMAIN libraries
\* a thread's update_document ends in this step, called with a "chunks" field
\* on a stored document
InjectsChunks ==
    /\ last'.fn = "update_document"
    /\ last'.arg.field = "chunks"
    /\ last'.doc \in DOMAIN documents

\* C27: update_library with a "documents" field and update_document with a
\* "chunks" field end with a ValueError and leave the five maps of the Store
\* and the snapshots as they were.
C27_NoChildListInjection ==
    [][(InjectsDocuments \/ InjectsChunks) =>
           /\ last'.val = "ValueError"
           /\ UNCHANGED <<libraries, documents, chunks, document_library_map,
                          chunk_document_map, disk>>]_vars

C27_Witness ==
    /\ last.fn = "update_document"
    /\ last.val = "ValueError"
    /\ last.arg.field = "chunks"
    /\ last.doc \in DOMAIN documents
    /\ \E c \in DOMAIN chunks : chunks[c].document_id = last.doc

\* C28: an update of a library's name (its metadata is handled the same way)
\* does not invalidate the index: the four fields of index_status, the
\* installed index and the build task are the same after the request.
C28_MetadataUpdateKeepsIndex ==
    [][(/\ last'.fn = "LibraryService.update_library"
        /\ last'.arg.field = "name"
        /\ last'.lib \in DOMAIN libraries) =>
           /\ last'.lib \in DOMAIN libraries'
           /\ libraries'[last'.lib].index_status = libraries[last'.lib].index_status
           /\ UNCHANGED <<library_indexers, indexing_tasks, builds>>]_vars

C28_Witness ==
    /\ last.fn = "LibraryService.update_library"
    /\ last.arg.field = "name"
    /\ last.val = "library"
    /\ last.lib \in DOMAIN libraries
    /\ libraries[last.lib].name = last.arg.value
    /\ libraries[last.lib].index_status.indexed
    /\ libraries[last.lib].index_status.indexer_type \in IndexerTypes
    /\ last.lib \in DOMAIN library_indexers

\* C29: every Store operation eventually gets each lock it asks for and
\* returns with its locks released, in every interleaving and also alone on
\* an idle Store. In particular no operation asks for a lock that its own
\* thread already holds: threading.Lock is not reentrant, so that request
\* would never be granted.
C29_DeadlockFree ==
    \A t \in Threads :
        stack[t] # <<>> => Needs(St, Top(St, t)) \notin HeldBy(St, t)

\* the chunk ids of self.chunk_info[library_id] of the indexer installed for l
IndexedChunks(l) ==
    LET b == builds[library_indexers[l]]
    IN {b.vectors[n].id : n \in DOMAIN b.vectors}

\* C30: whenever index_status.indexed is true for a library, the chunks held
\* by the index installed for it are exactly the chunks the Store holds for
\* that library; a write that arrives while a build is in flight leaves the
\* library not indexed when that build ends.
C30_IndexMatchesStore ==
    \A l \in DOMAIN libraries :
        (libraries[l].index_status.indexed /\ l \in DOMAIN library_indexers) =>
            IndexedChunks(l) = ChunksIn(l)

\* ------------------------------------------------------------ liveness
\* The event loop runs every task that is ready: a task created by
\* asyncio.create_task is run, and a task that awaits the embedder is
\* resumed when the embedder returns or fails.
LiveSpec == Init /\ [][Next]_vars /\ WF_vars(RunTask) /\ WF_vars(WakeTask)

\* build i is over: its task is done and its handle is out of indexing_tasks,
\* and its library is deleted, or not in progress, or in progress for a
\* later build
BuildOver(i) ==
    LET l == builds[i].lib
    IN /\ builds[i].pc = "done"
       /\ Get(indexing_tasks, l) # i
       /\ \/ l \notin DOMAIN libraries
          \/ ~libraries[l].index_status.indexing_in_progress
          \/ LiveBuilds(St, l) # {}

\* C31: every build started by start_indexing_library eventually ends, the
\* embedder answering every call: its task is done, its handle is removed
\* from indexing_tasks, and indexing_in_progress is false or the library is
\* deleted, on success, on failure and on cancellation. (A restart of the
\* process ends every task with it.)
C31_BuildEnds ==
    \A i \in 1..MaxBuilds :
        (i \in DOMAIN builds) ~> (i \notin DOMAIN builds \/ BuildOver(i))

\* C32: whenever index_status.indexing_in_progress is true for a library, an
\* unfinished build task for it is in indexing_tasks, in every reachable
\* state, those produced by a snapshot load and by library updates included.
C32_InProgressHasTask ==
    \A l \in DOMAIN libraries :
        libraries[l].index_status.indexing_in_progress =>
            /\ l \in DOMAIN indexing_tasks
            /\ builds[indexing_tasks[l]].pc # "done"

\* the indexer objects that searches awaiting the embedder will read
SearchedIndexers == {searches[j].indexer : j \in DOMAIN searches}

\* C33: a search reads one consistent state of its index: the index a search
\* holds is never one whose build is still running, and from the start of the
\* search, the wait for the query embedding included, to its return no build
\* step changes that indexer object.
C33_SearchReadsStableIndex ==
    /\ [](\A i \in SearchedIndexers : builds[i].pc = "done")
    /\ [][\A j \in DOMAIN searches :
             (\E n \in DOMAIN searches' : searches'[n] = searches[j]) =>
                 /\ searches[j].indexer \in DOMAIN builds'
                 /\ builds'[searches[j].indexer] = builds[searches[j].indexer]]_vars

\* a search awaits the embedder while a later build of the same library has
\* run a step
C33_Witness ==
    \E j \in DOMAIN searches, i \in DOMAIN builds :
        /\ builds[i].lib = searches[j].lib
        /\ i > searches[j].indexer
        /\ builds[i].pc # "pending"

\* ================================== SaveSpec: chunk writes of two threads
MaxSaveOps == 2

\* The process has started on a data directory that holds the snapshot of
\* one library with one document and no chunk, and lifespan() has loaded it.
SaveInit ==
    /\ \E l \in LibIds, d \in DocIds :
          LET file == [documents |-> [x \in {d} |->
                                         [id |-> d, library_id |-> l, meta |-> "m0"]],
                       chunks |-> EmptyMap,
                       library |-> [id |-> l, name |-> "n0",
                                    index_status |-> IndexStatus]]
          IN Install0(load_all_libraries(
                          [Fresh(TRUE) EXCEPT !.disk = Put(EmptyMap, l, file)], <<l>>))
    /\ opsLeft = MaxSaveOps

\* worker threads create, update and delete chunks; each call ends with
\* save_library of the chunk's library
SaveNext ==
    \E t \in Threads :
        \/ CallCreateChunk(t)
        \/ CallUpdateChunk(t)
        \/ CallDeleteChunk(t)
        \/ Step(t, "save_library")
        \/ Step(t, "create_chunk")
        \/ Step(t, "update_chunk")
        \/ Step(t, "delete_chunk")

SaveSpec == SaveInit /\ [][SaveNext]_vars

\* no thread and no handler is inside an operation
Quiescent == \A p \in Procs : stack[p] = <<>>

\* C34: once every operation has completed, the snapshot file of a library
\* equals the library's subtree in memory without the embeddings, also when
\* the saves of concurrent mutations overlapped: a save that read an older
\* state does not overwrite the file of a save that read a newer one.
C34_QuiescentSnapshot ==
    Quiescent =>
        \A l \in DOMAIN libraries \cap DOMAIN disk :
            disk[l] = SavedAlone(l).disk[l]

\* ===================================== RestartSpec: restarts over a snapshot
MaxRestartOps == 3

\* a snapshot file as save_library writes it after a chunk write: the
\* library, one document of it and the chunks cs of that document
SnapshotFile(l, d, cs) ==
    [documents |-> [x \in {d} |-> [id |-> d, library_id |-> l, meta |-> "m0"]],
     chunks |-> [c \in cs |-> [document_id |-> d, text |-> "t0", id |-> c]],
     library |-> [id |-> l, name |-> "n0", index_status |-> IndexStatus]]

\* An earlier run of the process has written the snapshot of one library,
\* and the process was started again while the data directory was unusable:
\* load_all_libraries loaded nothing, the Store is empty and the file is
\* still in the directory.
RestartInit ==
    /\ \E l \in LibIds, d \in DocIds, cs \in SUBSET ChunkIds, ok \in BOOLEAN :
          Install0([Fresh(ok) EXCEPT !.disk = Put(EmptyMap, l, SnapshotFile(l, d, cs))])
    /\ opsLeft = MaxRestartOps

\* worker threads create and delete libraries, and the process restarts
RestartNext ==
    \/ \E t \in Threads :
          \/ CallCreateLibrary(t)
          \/ CallDeleteLibrary(t)
          \/ Step(t, "create_library")
          \/ Step(t, "create_document")
          \/ Step(t, "create_chunk")
          \/ Step(t, "save_library")
          \/ Step(t, "delete_library")
          \/ Step(t, "delete_documents_by_library")
          \/ Step(t, "delete_document")
    \/ Restart
    \/ DataDirChange

RestartSpec == RestartInit /\ [][RestartNext]_vars

\* C35: a deleted library stays deleted across a restart: once
\* delete_library(L) has returned True, load_all_libraries over the data
\* directory as it is installs neither L nor a document or a chunk of it.
C35_DeletedStaysDeleted ==
    (last.fn = "delete_library" /\ last.val = "True") =>
        \A order \in ListDirOrders(St) :
            LET r == load_all_libraries([Fresh(TRUE) EXCEPT !.disk = disk], order)
            IN /\ last.lib \notin DOMAIN r.libraries
               /\ \A d \in DOMAIN r.documents : r.documents[d].library_id # last.lib

\* ================================ UpdateSpec: updates with any payload
MaxUpdateOps == 3

\* worker threads create libraries with their documents and chunks and
\* update the stored entities, with payloads the models accept and with
\* payloads they reject
CallInvalidUpdateLibrary(t) ==
    \E l \in LibIds :
        Call(t, Frame("update_library", "enter", l, NoId, NoId,
                      [field |-> "name", value |-> NotAString]))
CallInvalidUpdateDocument(t) ==
    \E d \in DocIds :
        Call(t, Frame("update_document", "apply", NoId, d, NoId,
                      [field |-> "meta", value |-> NotAString]))
CallInvalidUpdateChunk(t) ==
    \E c \in ChunkIds :
        Call(t, Frame("update_chunk", "map", NoId, NoId, c,
                      [field |-> "text", value |-> NotAString]))

\* {"id": "<uuid>"}: a payload that names an id
CallUpdateLibraryId(t) ==
    \E l \in LibIds, i \in LibIds :
        Call(t, Frame("update_library", "enter", l, NoId, NoId,
                      [field |-> "id", value |-> i]))
CallUpdateDocumentId(t) ==
    \E d \in DocIds, i \in DocIds :
        Call(t, Frame("update_document", "apply", NoId, d, NoId,
                      [field |-> "id", value |-> i]))
CallUpdateChunkId(t) ==
    \E c \in ChunkIds, i \in ChunkIds :
        Call(t, Frame("update_chunk", "map", NoId, NoId, c,
                      [field |-> "id", value |-> i]))

UpdateInit ==
    /\ \E ok \in BOOLEAN : Install0(Fresh(ok))
    /\ opsLeft = MaxUpdateOps

UpdateNext ==
    \E t \in Threads :
        \/ CallCreateLibrary(t)
        \/ CallUpdateLibrary(t)
        \/ CallUpdateDocument(t)
        \/ CallUpdateChunk(t)
        \/ CallInvalidUpdateLibrary(t)
        \/ CallInvalidUpdateDocument(t)
        \/ CallInvalidUpdateChunk(t)
        \/ CallUpdateLibraryId(t)
        \/ CallUpdateDocumentId(t)
        \/ CallUpdateChunkId(t)
        \/ Step(t, "create_library")
        \/ Step(t, "create_document")
        \/ Step(t, "create_chunk")
        \/ Step(t, "save_library")
        \/ Step(t, "update_document")
        \/ Step(t, "update_chunk")

UpdateSpec == UpdateInit /\ [][UpdateNext]_vars

\* the step ends a call of update_library, update_document or update_chunk
\* with an exception
UpdateRaised ==
    /\ last.fn \in {"update_library", "update_document", "update_chunk"}
    /\ last.val = "ValueError"

\* C36: an update_library, update_document or update_chunk call that raises,
\* because the merged entity fails the validation of its model or because the
\* payload is rejected, leaves the stored entities as they were before it.
C36_FailedUpdateChangesNothing ==
    [][UpdateRaised' =>
           /\ libraries' = libraries
           /\ documents' = documents
           /\ chunks' = chunks]_vars

\* C37: transitive creation is all-or-nothing: when create_library with
\* nested documents, or create_document with nested chunks, fails on a nested
\* child, neither the parent nor a child installed by the call nor a
\* relationship-map entry of them is left in the Store.
C37_TransitiveCreateAtomic ==
    (library_lock = {} /\ document_lock = {} /\ chunk_lock = {}) =>
        /\ \A l \in LibIds, ds \in NestedDocumentLists :
              LET r == CreatedAlone(Frame("create_library", "enter", l, NoId, NoId,
                                          NewLibrary(ds)))
              IN r.last.val = "ValueError" => StoreOf(r) = StoreOf(St)
        /\ \A d \in DocIds, l \in LibIds, cs \in NestedChunkLists :
              LET r == CreatedAlone(Frame("create_document", "store", l, d, NoId,
                                          [chunks |-> cs, meta |-> "m0"]))
              IN r.last.val = "ValueError" => StoreOf(r) = StoreOf(St)

\* C38: every entry of the libraries, documents and chunks maps holds an
\* entity whose id field equals the key it is stored under, after any
\* sequence of create and update calls, an update whose payload names an id
\* included.
C38_StoredIdIsKey ==
    /\ \A l \in DOMAIN libraries : libraries[l].id = l
    /\ \A d \in DOMAIN documents : documents[d].id = d
    /\ \A c \in DOMAIN chunks : chunks[c].id = c


\* the index set of a node, and the leaves below it from left to right
IndexSet(node) == {node.indices[i] : i \in DOMAIN node.indices}
RECURSIVE Leaves(_)
Leaves(node) ==
    IF node.leaf THEN <<node>> ELSE Leaves(node.left) \o Leaves(node.right)
RECURSIVE Height(_)
Height(node) ==
    IF node.leaf THEN 0
    ELSE 1 + (IF Height(node.left) > Height(node.right)
              THEN Height(node.left) ELSE Height(node.right))

\* every internal node at or below node is split as BallNode splits: two
\* non-empty children, disjoint, together the node's indices, the left one
\* holding the n \div 2 positions that come first along the axis of the
\* largest variance; every leaf is small or holds equal rows
RECURSIVE WellSplit(_, _, _)
WellSplit(P, node, ls) ==
    IF node.leaf
    THEN \/ Len(node.indices) <= ls
         \/ \A i, j \in IndexSet(node) : P[i] = P[j]
    ELSE LET axis == argmax(Variances(P, node.indices))
         IN /\ IndexSet(node.left) # {}
            /\ IndexSet(node.right) # {}
            /\ IndexSet(node.left) \cap IndexSet(node.right) = {}
            /\ IndexSet(node.left) \cup IndexSet(node.right) = IndexSet(node)
            /\ Len(node.left.indices) = Len(node.indices) \div 2
            /\ Len(node.left.indices) + Len(node.right.indices) = Len(node.indices)
            /\ \A i \in IndexSet(node.left), j \in IndexSet(node.right) :
                   \/ P[i][axis] < P[j][axis]
                   \/ P[i][axis] = P[j][axis] /\ i < j
            /\ WellSplit(P, node.left, ls)
            /\ WellSplit(P, node.right, ls)

\* C39: in the ball tree built from the rows with the leaf size, every
\* internal node has two non-empty children whose index sets are disjoint and
\* whose union is the node's index set, the left child taking the positions
\* below the median along the split axis and the right child the rest; every
\* leaf holds at most leaf_size rows unless all its rows are equal; the leaves
\* partition the positions of the rows and the tree is finite.
C39_BallTreePartition ==
    (searched = "BALL_TREE" /\ points # <<>>) =>
        LET root == build(points, leaf_size)
            leaves == Leaves(root)
        IN /\ IndexSet(root) = DOMAIN points
           /\ WellSplit(points, root, leaf_size)
           /\ \A a, b \in DOMAIN leaves :
                  a # b => IndexSet(leaves[a]) \cap IndexSet(leaves[b]) = {}
           /\ UNION {IndexSet(leaves[a]) : a \in DOMAIN leaves} = DOMAIN points
           /\ Height(root) < Len(points)

\* a tree of three rows, no two equal, whose root has a child that is split
\* again
C39_Witness ==
    /\ searched = "BALL_TREE"
    /\ Len(points) = 3
    /\ \A i, j \in DOMAIN points : i # j => points[i] # points[j]
    /\ LET root == build(points, leaf_size)
       IN /\ ~root.leaf
          /\ ~root.right.leaf
          /\ Len(Leaves(root)) = 3

====
